---- MODULE Spec2Model ----
(***************************************************************************)
(* State-machine model of the metadata extraction and retrieval pipeline:  *)
(* the LangGraph orchestrator (src/orchestration), the metadata validator, *)
(* the model gateway (src/utils/llm_client.py) and the chunker.            *)
(*                                                                         *)
(* Conventions                                                             *)
(*  - a JSON value is a record [t, s, n, b, l]: t is the Python type tag,  *)
(*    and exactly one of s (str), n (number), b (bool), l (list) carries   *)
(*    the value; the others hold the neutral value of their type.          *)
(*  - a JSON string is a sequence of segments; the segment " " is          *)
(*    whitespace, every other segment starts and ends with a               *)
(*    non-whitespace character.                                            *)
(*  - numbers that are floats in [0,1] in the code are held in hundredths. *)
(*  - a Python dict is a function whose DOMAIN is the set of its keys.     *)
(*  - exception messages and status names are plain strings.               *)
(***************************************************************************)
EXTENDS Integers, Sequences, FiniteSets, TLC

\* ------------------------------------------------------------------------
\* Bounds of the model
\* ------------------------------------------------------------------------
MaxTextTokens == 2

\* ------------------------------------------------------------------------
\* JSON values and Python primitives
\* ------------------------------------------------------------------------
J(t, s, n, b, l) == [t |-> t, s |-> s, n |-> n, b |-> b, l |-> l]
Str(s) == J("str", s, 0, FALSE, <<>>)
Num(n) == J("num", <<>>, n, FALSE, <<>>)
Bool(b) == J("bool", <<>>, 0, b, <<>>)
List(l) == J("list", <<>>, 0, FALSE, l)
Null == J("null", <<>>, 0, FALSE, <<>>)

\* Python truth value of a JSON value
Truthy(v) ==
    CASE v.t = "str" -> v.s # <<>>
      [] v.t = "num" -> v.n # 0
      [] v.t = "bool" -> v.b
      [] v.t = "list" -> v.l # <<>>
      [] OTHER -> FALSE

\* dict[k] = v
Put(d, k, v) == [key \in DOMAIN d \cup {k} |-> IF key = k THEN v ELSE d[key]]
\* del d[k] for every k in ks
Without(d, ks) == [key \in DOMAIN d \ ks |-> d[key]]

IsSpace(seg) == seg = " "

RECURSIVE lstrip(_)
lstrip(s) == IF s # <<>> /\ IsSpace(Head(s)) THEN lstrip(Tail(s)) ELSE s

RECURSIVE rstrip(_)
rstrip(s) ==
    IF s # <<>> /\ IsSpace(s[Len(s)]) THEN rstrip(SubSeq(s, 1, Len(s) - 1)) ELSE s

\* str.strip()
strip(s) == rstrip(lstrip(s))

LowerSeg(seg) ==
    CASE seg = "Official" -> "official"
      [] seg = "DRAFT" -> "draft"
      [] seg = "HR" -> "hr"
      [] OTHER -> seg

\* str.lower()
lower(s) == [i \in 1..Len(s) |-> LowerSeg(s[i])]

RECURSIVE SumLen(_)
SumLen(s) == IF s = <<>> THEN 0 ELSE Len(Head(s)) + SumLen(Tail(s))

\* len(str)
StrLen(s) == SumLen(s)

Cond(c, msg) == IF c THEN <<msg>> ELSE <<>>

RECURSIVE Flatten(_)
Flatten(ss) == IF ss = <<>> THEN <<>> ELSE Head(ss) \o Flatten(Tail(ss))

\* ------------------------------------------------------------------------
\* config/business_rules.py
\* ------------------------------------------------------------------------
DOCUMENT_TYPES ==
    { <<"HR Policy">>, <<"Technical Manual">>, <<"Financial Report">>,
      <<"Legal Document">>, <<"Memo">>, <<"Procedure">>, <<"Guideline">>,
      <<"Standard Operating Procedure">>, <<"Other">> }

DEPARTMENTS ==
    { <<"HR">>, <<"Engineering">>, <<"Finance">>, <<"Legal">>, <<"Operations">>,
      <<"Marketing">>, <<"Sales">>, <<"Executive">>, <<"IT">>,
      <<"Cross-Functional">> }

AUTHORITY_LEVELS ==
    { <<"official">>, <<"draft">>, <<"archived">>, <<"deprecated">>,
      <<"reference">> }

INTENDED_AUDIENCES ==
    { <<"all_employees">>, <<"managers">>, <<"executives">>, <<"engineers">>,
      <<"hr_staff">>, <<"finance_team">>, <<"legal_team">>, <<"contractors">>,
      <<"new_hires">>, <<"specific_department">> }

COMPLEXITY_LEVELS == { <<"simple">>, <<"structured">>, <<"complex">> }

MIN_SUMMARY_LENGTH == 50
MAX_SUMMARY_LENGTH == 500
MIN_TOPICS == 1
MAX_TOPICS == 10
MIN_CONFIDENCE == 0
MAX_CONFIDENCE == 100
LOW_CONFIDENCE_THRESHOLD == 70
HIGH_CONFIDENCE_THRESHOLD == 90

\* re.match(VERSION_PATTERN, s) on the strings of the model
VERSION_PATTERN(s) == s \in { <<"1.0">>, <<"2.1.3">> }
\* re.match(DATE_PATTERN, s) on the strings of the model
DATE_PATTERN(s) == s \in { <<"2024-01-01">>, <<"2025-06-30">> }

\* lexicographic rank of the date strings of the model (str <= str)
StrRank(s) ==
    CASE s = <<"2024-01-01">> -> 1
      [] s = <<"2025-06-30">> -> 2
      [] s = <<"next year">> -> 3
      [] OTHER -> 0

is_valid_document_type(v) == v.t = "str" /\ v.s \in DOCUMENT_TYPES
is_valid_department(v) == v.t = "str" /\ v.s \in DEPARTMENTS
is_valid_authority_level(v) == v.t = "str" /\ v.s \in AUTHORITY_LEVELS
is_valid_audience(v) == v.t = "str" /\ v.s \in INTENDED_AUDIENCES

required_fields ==
    << "document_type", "department", "authority_level", "topics",
       "intended_audience" >>

InvalidAudiences(l) ==
    Flatten([i \in 1..Len(l) |->
                Cond(~is_valid_audience(l[i]), "Invalid audience")])

validate_metadata_completeness(metadata) ==
    Flatten([i \in 1..Len(required_fields) |->
                Cond(required_fields[i] \notin DOMAIN metadata,
                     "Missing required field: " \o required_fields[i])])
    \o Cond("document_type" \in DOMAIN metadata
              /\ ~is_valid_document_type(metadata["document_type"]),
            "Invalid document_type")
    \o Cond("department" \in DOMAIN metadata
              /\ ~is_valid_department(metadata["department"]),
            "Invalid department")
    \o Cond("authority_level" \in DOMAIN metadata
              /\ ~is_valid_authority_level(metadata["authority_level"]),
            "Invalid authority_level")
    \o (IF "topics" \in DOMAIN metadata
        THEN IF metadata["topics"].t # "list"
             THEN <<"topics must be an array">>
             ELSE IF Len(metadata["topics"].l) < MIN_TOPICS
             THEN <<"Must have at least 1 topic">>
             ELSE Cond(Len(metadata["topics"].l) > MAX_TOPICS,
                       "Cannot have more than 10 topics")
        ELSE <<>>)
    \o (IF "intended_audience" \in DOMAIN metadata
        THEN IF metadata["intended_audience"].t # "list"
             THEN <<"intended_audience must be an array">>
             ELSE InvalidAudiences(metadata["intended_audience"].l)
        ELSE <<>>)

\* ------------------------------------------------------------------------
\* src/metadata/validator.py
\* ------------------------------------------------------------------------
string_fields ==
    { "document_type", "department", "authority_level", "version",
      "document_summary" }
enum_fields == { "authority_level" }
array_fields == { "topics", "intended_audience", "key_entities" }
optional_empty_fields == { "key_entities", "geographic_scope", "expiration_date" }

\* the list comprehension with the emptiness test on the item as it came:
\* a whitespace-only string is kept and stripped to ""
FixItemsUnstrippedTest(l) ==
    Flatten([i \in 1..Len(l) |->
        IF Truthy(l[i])
        THEN << IF l[i].t = "str" THEN Str(strip(l[i].s)) ELSE l[i] >>
        ELSE <<>>])

\* the list comprehension of _fix_minor_issues: keep the truthy items that
\* are not whitespace-only strings, and strip the strings that are kept
FixItems(l) ==
    Flatten([i \in 1..Len(l) |->
        IF Truthy(l[i]) /\ (l[i].t # "str" \/ strip(l[i].s) # <<>>)
        THEN << IF l[i].t = "str" THEN Str(strip(l[i].s)) ELSE l[i] >>
        ELSE <<>>])

FixField(field, v) ==
    LET trimmed == IF field \in string_fields /\ v.t = "str"
                   THEN Str(strip(v.s)) ELSE v
        lowered == IF field \in enum_fields /\ trimmed.t = "str"
                   THEN Str(lower(trimmed.s)) ELSE trimmed
    IN  IF field \in array_fields
        THEN List(FixItems(IF lowered.t = "list" THEN lowered.l ELSE <<lowered>>))
        ELSE lowered

fix_minor_issues(metadata) ==
    LET fixed == [field \in DOMAIN metadata |-> FixField(field, metadata[field])]
    IN  Without(fixed, {field \in optional_empty_fields \cap DOMAIN fixed :
                            ~Truthy(fixed[field])})

\* the JSON schema file is not part of the sources: required properties and
\* the array types, as the data model describes them
validate_schema(metadata) ==
    Flatten([i \in 1..Len(required_fields) |->
                Cond(required_fields[i] \notin DOMAIN metadata,
                     "root: '" \o required_fields[i] \o "' is a required property")])
    \o Cond("topics" \in DOMAIN metadata /\ metadata["topics"].t # "list",
            "topics: is not of type 'array'")
    \o Cond("intended_audience" \in DOMAIN metadata
              /\ metadata["intended_audience"].t # "list",
            "intended_audience: is not of type 'array'")

Has(metadata, field) == field \in DOMAIN metadata
HasTruthy(metadata, field) == Has(metadata, field) /\ Truthy(metadata[field])

\* the TypeError that _validate_business_rules raises on this metadata,
\* "" when it raises none (re.match and len() and <= on a wrong type)
business_rules_exception(metadata) ==
    IF Has(metadata, "version") /\ metadata["version"].t # "str"
    THEN "expected string or bytes-like object"
    ELSE IF \E field \in {"effective_date", "expiration_date"} :
                HasTruthy(metadata, field) /\ metadata[field].t # "str"
    THEN "expected string or bytes-like object"
    ELSE IF Has(metadata, "document_summary")
              /\ metadata["document_summary"].t \notin {"str", "list"}
    THEN "object has no len()"
    ELSE IF Has(metadata, "classification_confidence")
              /\ metadata["classification_confidence"].t \notin {"num", "bool"}
    THEN "'<=' not supported between instances"
    ELSE ""

\* numeric value of a number or bool, in hundredths
NumVal(v) == IF v.t = "bool" THEN (IF v.b THEN 100 ELSE 0) ELSE v.n
\* len() of a str or list
LenOf(v) == IF v.t = "list" THEN Len(v.l) ELSE StrLen(v.s)

validate_business_rules(metadata) ==
    validate_metadata_completeness(metadata)
    \o Cond(Has(metadata, "version") /\ ~VERSION_PATTERN(metadata["version"].s),
            "Invalid version format")
    \o Cond(HasTruthy(metadata, "effective_date")
              /\ ~DATE_PATTERN(metadata["effective_date"].s),
            "Invalid effective_date format")
    \o Cond(HasTruthy(metadata, "expiration_date")
              /\ ~DATE_PATTERN(metadata["expiration_date"].s),
            "Invalid expiration_date format")
    \o Cond(Has(metadata, "document_summary")
              /\ LenOf(metadata["document_summary"]) < MIN_SUMMARY_LENGTH,
            "Summary too short")
    \o Cond(Has(metadata, "document_summary")
              /\ LenOf(metadata["document_summary"]) > MAX_SUMMARY_LENGTH,
            "Summary too long")
    \o Cond(Has(metadata, "classification_confidence")
              /\ ~(MIN_CONFIDENCE <= NumVal(metadata["classification_confidence"])
                   /\ NumVal(metadata["classification_confidence"]) <= MAX_CONFIDENCE),
            "Confidence out of range")
    \o Cond(HasTruthy(metadata, "effective_date")
              /\ HasTruthy(metadata, "expiration_date")
              /\ StrRank(metadata["expiration_date"].s)
                   <= StrRank(metadata["effective_date"].s),
            "expiration_date must be after effective_date")

\* validate(): the metadata the two passes look at
validate_fixed(metadata, fix) == IF fix THEN fix_minor_issues(metadata) ELSE metadata

\* validate(): all_errors = schema_errors + business_errors
all_errors(metadata, fix) ==
    validate_schema(validate_fixed(metadata, fix))
    \o validate_business_rules(validate_fixed(metadata, fix))

\* validate(): the exception it ends with, "none" when it returns
validate_exception(metadata, strict, fix) ==
    IF business_rules_exception(validate_fixed(metadata, fix)) # ""
    THEN "TypeError"
    ELSE IF all_errors(metadata, fix) # <<>> /\ strict
    THEN "MetadataValidationError"
    ELSE "none"

\* validate(): the value it returns when it raises nothing
validate(metadata, strict, fix) == validate_fixed(metadata, fix)

is_low_confidence(metadata) ==
    IF ~Has(metadata, "classification_confidence") THEN TRUE
    ELSE NumVal(metadata["classification_confidence"]) < LOW_CONFIDENCE_THRESHOLD

is_high_confidence(metadata) ==
    IF ~Has(metadata, "classification_confidence") THEN FALSE
    ELSE NumVal(metadata["classification_confidence"]) >= HIGH_CONFIDENCE_THRESHOLD

\* get_validation_summary(): it calls validate(metadata, strict=False), so
\* only an unexpected exception of validate reaches its except branch
get_validation_summary(metadata) ==
    LET exc == validate_exception(metadata, FALSE, TRUE)
        errors == IF exc = "none" THEN <<>>
                  ELSE IF exc = "MetadataValidationError"
                       THEN all_errors(metadata, TRUE)
                       ELSE << business_rules_exception(fix_minor_issues(metadata)) >>
    IN  [ is_valid |-> exc = "none",
          error_count |-> Len(errors),
          errors |-> errors,
          is_high_confidence |-> is_high_confidence(metadata),
          is_low_confidence |-> is_low_confidence(metadata),
          has_required_fields |->
              \A i \in 1..Len(required_fields) : Has(metadata, required_fields[i]) ]

\* get_validation_summary(): the comparison of a non-numeric confidence
\* with the thresholds raises outside its try block
summary_exception(metadata) ==
    IF Has(metadata, "classification_confidence")
         /\ metadata["classification_confidence"].t \notin {"num", "bool"}
    THEN "'>=' not supported between instances"
    ELSE ""

\* ------------------------------------------------------------------------
\* src/metadata/classifier.py
\* ------------------------------------------------------------------------
classification_required_fields ==
    { "complexity", "document_type", "requires_deep_analysis", "confidence" }

\* the exception _parse_classification raises on this response, "" if none
parse_classification_exception(response) ==
    IF classification_required_fields \ DOMAIN response # {}
    THEN "Classification response missing required fields"
    ELSE IF response["confidence"].t \notin {"num", "bool"}
    THEN "'<=' not supported between instances"
    ELSE ""

Clamp(n) == IF n < 0 THEN 0 ELSE IF n > 100 THEN 100 ELSE n

\* _parse_classification followed by ClassificationResult.to_dict()
parse_classification(response) ==
    [ complexity |->
          IF response["complexity"].t = "str"
               /\ response["complexity"].s \in COMPLEXITY_LEVELS
          THEN response["complexity"] ELSE Str(<<"structured">>),
      document_type |->
          IF response["document_type"].t = "str"
               /\ response["document_type"].s \in DOCUMENT_TYPES
          THEN response["document_type"] ELSE Str(<<"Other">>),
      requires_deep_analysis |-> response["requires_deep_analysis"],
      confidence |->
          IF response["confidence"].t = "num"
          THEN Num(Clamp(response["confidence"].n))
          ELSE response["confidence"],
      reasoning |->
          IF "reasoning" \in DOMAIN response THEN response["reasoning"]
          ELSE Str(<<"No reasoning provided">>) ]

get_extraction_strategy(classification) ==
    IF classification["complexity"] = Str(<<"simple">>) THEN "fast"
    ELSE IF classification["complexity"] = Str(<<"structured">>) THEN "template"
    ELSE "deep"

\* ------------------------------------------------------------------------
\* src/metadata/doc_extractor.py
\* ------------------------------------------------------------------------
AsList(v) == IF v.t = "list" THEN v ELSE List(<<v>>)

metadata_defaults ==
    [ requires_acknowledgment |-> Bool(FALSE),
      compliance_related |-> Bool(FALSE),
      geographic_scope |-> List(<<Str(<<"global">>)>>) ]

\* the post-processing that fills document_type only where it is missing
post_process_metadata_fill_missing(metadata, classification) ==
    LET typed == IF "document_type" \in DOMAIN metadata THEN metadata
                 ELSE Put(metadata, "document_type", classification["document_type"])
        tagged == Put(Put(typed, "complexity", classification["complexity"]),
                      "requires_deep_analysis",
                      classification["requires_deep_analysis"])
        listed == [k \in DOMAIN tagged |->
                      IF k \in {"topics", "intended_audience"}
                      THEN AsList(tagged[k]) ELSE tagged[k]]
        cleaned == Without(listed,
                      {k \in DOMAIN listed :
                          \/ listed[k] = Null
                          \/ listed[k] = Str(<<>>)
                          \/ listed[k] = List(<<>>)})
    IN  [k \in DOMAIN cleaned \cup DOMAIN metadata_defaults |->
            IF k \in DOMAIN cleaned THEN cleaned[k] ELSE metadata_defaults[k]]

post_process_metadata(metadata, classification) ==
    LET typed == Put(metadata, "document_type", classification["document_type"])
        tagged == Put(Put(typed, "complexity", classification["complexity"]),
                      "requires_deep_analysis",
                      classification["requires_deep_analysis"])
        listed == [k \in DOMAIN tagged |->
                      IF k \in {"topics", "intended_audience"}
                      THEN AsList(tagged[k]) ELSE tagged[k]]
        cleaned == Without(listed,
                      {k \in DOMAIN listed :
                          \/ listed[k] = Null
                          \/ listed[k] = Str(<<>>)
                          \/ listed[k] = List(<<>>)})
    IN  [k \in DOMAIN cleaned \cup DOMAIN metadata_defaults |->
            IF k \in DOMAIN cleaned THEN cleaned[k] ELSE metadata_defaults[k]]

\* ------------------------------------------------------------------------
\* src/ingestion/chunker.py
\* ------------------------------------------------------------------------
settings_chunk_size == 500
settings_chunk_overlap == 50

\* x or default
OrDefault(x, default) == IF x # 0 THEN x ELSE default

\* a slice bound as Python reads it: negative bounds count from the end,
\* and every bound is clipped to 0..len
SliceIndex(i, n) ==
    IF i < 0 THEN (IF n + i < 0 THEN 0 ELSE n + i)
    ELSE (IF i > n THEN n ELSE i)

\* tokens[a:b]
Slice(tokens, a, b) ==
    LET lo == SliceIndex(a, Len(tokens))
        hi == SliceIndex(b, Len(tokens))
    IN  IF hi <= lo THEN << >> ELSE SubSeq(tokens, lo + 1, hi)

\* len(encoding.decode(tokens)): the characters of the tokens, concatenated
DecodedLen(tokens) == SumLen(tokens)

\* the state of the chunking loop before its first iteration
ChunkLoopInit == [ start_idx |-> 0, chunk_num |-> 0, chunks |-> <<>> ]

\* one iteration of the while loop of chunk_document
ChunkLoopBody(loop, tokens, chunk_size, chunk_overlap, document_metadata) ==
    LET end_idx == loop.start_idx + chunk_size
        chunk_tokens == Slice(tokens, loop.start_idx, end_idx)
        start_char == DecodedLen(Slice(tokens, 0, loop.start_idx))
        chunk == [ text |-> chunk_tokens,
                   chunk_number |-> loop.chunk_num,
                   start_char |-> start_char,
                   end_char |-> start_char + DecodedLen(chunk_tokens),
                   metadata |-> document_metadata ]
    IN  [ start_idx |-> loop.start_idx + chunk_size - chunk_overlap,
          chunk_num |-> loop.chunk_num + 1,
          chunks |-> Append(loop.chunks, chunk) ]

RECURSIVE ChunkLoop(_, _, _, _, _)
ChunkLoop(loop, tokens, chunk_size, chunk_overlap, document_metadata) ==
    IF loop.start_idx < Len(tokens)
    THEN ChunkLoop(ChunkLoopBody(loop, tokens, chunk_size, chunk_overlap,
                                 document_metadata),
                   tokens, chunk_size, chunk_overlap, document_metadata)
    ELSE loop.chunks

\* chunk_document(text, chunk_size, chunk_overlap, document_metadata) for
\* arguments on which the loop terminates; None and 0 are both 0 here
chunk_document(tokens, chunk_size, chunk_overlap, document_metadata) ==
    ChunkLoop(ChunkLoopInit, tokens,
              OrDefault(chunk_size, settings_chunk_size),
              OrDefault(chunk_overlap, settings_chunk_overlap),
              document_metadata)

\* ------------------------------------------------------------------------
\* src/utils/llm_client.py: usage accounting
\* ------------------------------------------------------------------------
\* price table of _estimate_cost, in 1e-9 dollars per token
InputPrice(model) ==
    CASE model = "gpt-4o" -> 2500
      [] model = "gpt-4o-mini" -> 150
      [] model = "text-embedding-3-small" -> 20
      [] model = "text-embedding-3-large" -> 130
      [] OTHER -> 2500

OutputPrice(model) ==
    CASE model = "gpt-4o" -> 10000
      [] model = "gpt-4o-mini" -> 600
      [] model = "text-embedding-3-small" -> 20
      [] model = "text-embedding-3-large" -> 130
      [] OTHER -> 10000

estimate_cost(model, usage) ==
    usage.prompt_tokens * InputPrice(model)
      + usage.completion_tokens * OutputPrice(model)

\* ------------------------------------------------------------------------
\* The environment of a pipeline run: what the model and the stages can do
\* ------------------------------------------------------------------------
MaxRuns == 2

\* str(e) of the exceptions a stage body can raise (an exception may carry
\* no message at all)
Messages == { "", "Connection error." }

\* str(e) of the exceptions that escape graph.invoke or the usage bookkeeping
PipelineMessages == { "Recursion limit reached" }

\* the token alphabet of the documents; a token decodes to its characters
Tokens == { "a", "bb" }

RECURSIVE SeqsUpTo(_, _)
SeqsUpTo(S, n) ==
    IF n = 0 THEN { <<>> }
    ELSE SeqsUpTo(S, n - 1)
           \cup { Append(q, x) : q \in {r \in SeqsUpTo(S, n - 1) : Len(r) = n - 1},
                                 x \in S }

RawTexts == SeqsUpTo(Tokens, MaxTextTokens)
DocumentIds == { "doc_1" }
\* filename argument of run; None and "" are both ""
Filenames == { "", "policy.txt" }

\* response.usage of a completion: absent, or the token counts
NoUsage == [ present |-> FALSE, prompt_tokens |-> 0, completion_tokens |-> 0,
             total_tokens |-> 0 ]
Usages ==
    { NoUsage,
      [ present |-> TRUE, prompt_tokens |-> 7, completion_tokens |-> 3,
        total_tokens |-> 10 ] }

\* JSON objects the model answers the classification prompt with
ClassificationResponses ==
    << [ complexity |-> Str(<<"simple">>), document_type |-> Str(<<"HR Policy">>),
         requires_deep_analysis |-> Bool(FALSE), confidence |-> Num(95),
         reasoning |-> Str(<<"policy", " ", "text">>) ],
       [ complexity |-> Str(<<"complex">>), document_type |-> Str(<<"Contract">>),
         requires_deep_analysis |-> Bool(TRUE), confidence |-> Num(150) ],
       [ complexity |-> Str(<<"simple">>), document_type |-> Str(<<"Memo">>),
         requires_deep_analysis |-> Bool(FALSE) ],
       [ complexity |-> Str(<<"very", " ", "hard">>), document_type |-> Str(<<"Memo">>),
         requires_deep_analysis |-> Str(<<"false">>), confidence |-> Num(50) ],
       [ complexity |-> Str(<<"complex">>), document_type |-> Str(<<"Procedure">>),
         requires_deep_analysis |-> Null, confidence |-> Str(<<"high">>) ],
       [ complexity |-> Str(<<"complex">>), document_type |-> Str(<<"Guideline">>),
         requires_deep_analysis |-> Num(0), confidence |-> Num(-5) ] >>

\* JSON objects the model answers the extraction prompt with
MetadataResponses ==
    << [ document_type |-> Str(<<"HR Policy">>), department |-> Str(<<"HR">>),
         authority_level |-> Str(<<"official">>),
         topics |-> List(<<Str(<<"annual_leave">>)>>),
         intended_audience |-> List(<<Str(<<"all_employees">>)>>) ],
       [ document_type |-> Str(<<"Memo">>), department |-> Str(<<" ", "HR", " ">>),
         authority_level |-> Str(<<" ", "Official">>),
         topics |-> Str(<<"remote_work">>),
         intended_audience |-> List(<<Str(<<"managers">>), Str(<<" ">>),
                                      Str(<<"managers">>)>>),
         version |-> Str(<<"1.0">>), key_entities |-> List(<<>>),
         classification_confidence |-> Num(60) ],
       [ department |-> Str(<<"Human Resources">>),
         authority_level |-> Str(<<"official">>),
         topics |-> List(<<>>),
         intended_audience |-> List(<<Str(<<"everyone">>)>>),
         version |-> Str(<<"v1">>),
         effective_date |-> Str(<<"2025-06-30">>),
         expiration_date |-> Str(<<"2024-01-01">>) ],
       [ document_type |-> Str(<<"HR Policy">>), department |-> Str(<<"HR">>),
         authority_level |-> Str(<<"official">>),
         topics |-> List(<<Str(<<"annual_leave">>)>>),
         intended_audience |-> List(<<Str(<<"all_employees">>)>>),
         version |-> Num(100) ],
       [ document_type |-> Str(<<"HR Policy">>), department |-> Str(<<"HR">>),
         authority_level |-> Str(<<"official">>),
         topics |-> List(<<Str(<<"annual_leave">>)>>),
         intended_audience |-> List(<<Str(<<"all_employees">>)>>),
         classification_confidence |-> Str(<<"high">>) ] >>

\* what a call of complete_json can end with: an exception of the request
\* (after the retries), a response that is not JSON, or a JSON object
LLMOutcomes(responses) ==
    { [ kind |-> "error", msg |-> m, usage |-> NoUsage, response |-> 0 ] :
          m \in Messages }
    \cup { [ kind |-> "bad_json", msg |-> "Expecting value: line 1 column 1 (char 0)",
             usage |-> u, response |-> 0 ] : u \in Usages }
    \cup { [ kind |-> "response", msg |-> "", usage |-> u, response |-> i ] :
             u \in Usages, i \in 1..Len(responses) }

\* whether a stage body raises, and with which message
StageOutcomes ==
    { [ raises |-> FALSE, msg |-> "" ] }
    \cup { [ raises |-> TRUE, msg |-> m ] : m \in Messages }

\* time.time() - start_time, in ticks
Durations == { 1, 2 }

\* ------------------------------------------------------------------------
\* State
\* ------------------------------------------------------------------------
VARIABLES
    pc,                \* the node of the graph that runs next in run()
    state,             \* the GraphState the graph threads through its nodes
    initial_state,     \* the dict run() builds and returns when invoke raises
    result,            \* the state run() returned
    raised,            \* history: the stages that raised in this run, in order
    pipeline_exc,      \* history: run() went through its except branch
    runs,              \* number of calls of run() so far
    total_tokens_used, \* LLMClient.total_tokens_used
    total_cost,        \* LLMClient.total_cost, in 1e-9 dollars
    retry_max_attempts, \* settings.retry_max_attempts
    call,              \* the gateway call in progress (complete or embed_texts)
    threads,           \* concurrent callers of one gateway: where each is in
                       \* the usage accounting of its call
    issued,            \* history: tokens and cost of the successful calls
                       \* since the last reset
    chunker,           \* the call of chunk_document in progress
    heap,              \* the dict objects a caller of chunk_document and the
                       \* chunks it got refer to
    fcall,             \* the call of a classifier, validator or retriever
                       \* function in progress: its argument and how it ended
    collection,        \* the ChromaDB collection: its entries by id
    scall,             \* the call of a ChromaManager method in progress
    prompt_files,      \* the markdown files of the prompts directory, by name
    cache,             \* PromptLoader._cache
    lcall,             \* the call of a PromptLoader method in progress
    singleton,         \* the module global an accessor keeps its instance in
    constructed,       \* history: the instances the accessor has constructed
    getters            \* the callers of the accessor: where each is in it

pipeVars == << pc, state, initial_state, result, raised, pipeline_exc, runs >>
usageVars == << total_tokens_used, total_cost >>
gatewayVars == << retry_max_attempts, call >>
threadVars == << threads, issued >>
chunkVars == << chunker, heap >>
storeVars == << collection, scall >>
loaderVars == << prompt_files, cache, lcall >>
accessorVars == << singleton, constructed, getters >>
auxVars == << loaderVars, accessorVars >>
libVars == << fcall, storeVars, auxVars >>
vars == << pipeVars, usageVars, gatewayVars, threadVars, chunkVars, libVars >>

\* ------------------------------------------------------------------------
\* src/orchestration/state.py
\* ------------------------------------------------------------------------
create_initial_state(document_id, raw_text, filename) ==
    LET base == [ document_id |-> document_id, raw_text |-> raw_text,
                  status |-> "pending" ]
    IN  IF filename # "" THEN Put(base, "filename", filename) ELSE base

\* a failure record that starts from the two input fields alone
mark_as_failed_fresh(s, error, stage) ==
    [ document_id |-> s["document_id"], raw_text |-> s["raw_text"],
      status |-> "failed", error |-> error, error_stage |-> stage ]

mark_as_failed(s, error, stage) ==
    Put(Put(Put(s, "status", "failed"), "error", error), "error_stage", stage)

is_state_valid(s) ==
    /\ {"document_id", "raw_text", "status"} \subseteq DOMAIN s
    /\ s["status"] \in {"extracting_metadata", "chunking", "extracting_chunks",
                        "validating", "completed"}
          => "classification" \in DOMAIN s
    /\ s["status"] \in {"chunking", "extracting_chunks", "validating", "completed"}
          => "doc_metadata" \in DOMAIN s
    /\ s["status"] \in {"extracting_chunks", "validating", "completed"}
          => "chunks" \in DOMAIN s

\* ------------------------------------------------------------------------
\* src/orchestration/nodes.py: the node functions, as functions of the state
\* they receive and of what their calls end with
\* ------------------------------------------------------------------------
\* first statement of classify_document_node
classify_enter(s) == Put(s, "status", "classifying")

\* the exception classifier.classify ends with; raises is FALSE if it returns
classify_exception(o) ==
    IF o.kind # "response" THEN [ raises |-> TRUE, msg |-> o.msg ]
    ELSE LET exc == parse_classification_exception(ClassificationResponses[o.response])
         IN  [ raises |-> exc # "", msg |-> exc ]

\* the message of the exception alone, without the stage's prefix
classify_error_bare(msg) == msg

classify_error(msg) == "Classification failed: " \o msg

classify_document_node(s, o) ==
    IF classify_exception(o).raises
    THEN mark_as_failed(s, classify_error(classify_exception(o).msg),
                        "classification")
    ELSE LET classification ==
                 parse_classification(ClassificationResponses[o.response])
         IN  Put(Put(Put(s, "classification", classification),
                     "extraction_strategy", get_extraction_strategy(classification)),
                 "status", "extracting_metadata")

extract_doc_metadata_node(s, o) ==
    IF o.kind # "response"
    THEN mark_as_failed(s, "Document metadata extraction failed: " \o o.msg,
                        "doc_metadata_extraction")
    ELSE Put(Put(s, "doc_metadata",
                 post_process_metadata(MetadataResponses[o.response],
                                       s["classification"])),
             "status", "chunking")

node_chunk_size == 500
node_chunk_overlap == 50

\* the chunk stage without state["chunks"] = chunks
chunk_document_node_no_chunks(s, o) ==
    IF o.raises
    THEN mark_as_failed(s, "Document chunking failed: " \o o.msg, "chunking")
    ELSE Put(s, "status",
             IF Truthy(s["classification"]["requires_deep_analysis"])
             THEN "extracting_chunks" ELSE "validating")

chunk_document_node(s, o) ==
    IF o.raises
    THEN mark_as_failed(s, "Document chunking failed: " \o o.msg, "chunking")
    ELSE Put(Put(s, "chunks",
                 chunk_document(s["raw_text"], node_chunk_size, node_chunk_overlap,
                                s["doc_metadata"])),
             "status",
             IF Truthy(s["classification"]["requires_deep_analysis"])
             THEN "extracting_chunks" ELSE "validating")

\* the placeholder copies the chunks before anything in its body can raise
extract_chunk_metadata_node(s, o) ==
    LET copied == Put(s, "enriched_chunks", s["chunks"])
    IN  IF o.raises
        THEN mark_as_failed(copied, "Chunk metadata extraction failed: " \o o.msg,
                            "chunk_metadata_extraction")
        ELSE Put(copied, "status", "validating")

low_confidence_warning == "Low confidence classification - manual review recommended"

\* o is what get_validator() ends with
validate_metadata_node(s, o) ==
    LET failed(msg) == mark_as_failed(s, "Validation failed unexpectedly: " \o msg,
                                      "validation")
        validated == validate(s["doc_metadata"], FALSE, TRUE)
        fixed == Put(s, "doc_metadata", validated)
        summary == get_validation_summary(validated)
    IN  IF o.raises THEN failed(o.msg)
        ELSE IF validate_exception(s["doc_metadata"], FALSE, TRUE) = "TypeError"
        THEN failed(business_rules_exception(fix_minor_issues(s["doc_metadata"])))
        ELSE IF summary_exception(validated) # ""
        THEN mark_as_failed(fixed,
                 "Validation failed unexpectedly: " \o summary_exception(validated),
                 "validation")
        ELSE Put(Put(Put(Put(fixed, "is_valid", summary.is_valid),
                         "validation_errors", summary.errors),
                     "validation_warnings",
                     Cond(summary.is_low_confidence, low_confidence_warning)),
                 "status", "completed")

handle_error_node(s) == s

\* the edge decided as DocumentClassifier.should_extract_chunk_metadata
\* decides: deep analysis required, or a complex document
should_extract_chunk_metadata_or_complex(s) ==
    IF "classification" \in DOMAIN s
         /\ "requires_deep_analysis" \in DOMAIN s["classification"]
         /\ (\/ Truthy(s["classification"]["requires_deep_analysis"])
             \/ s["classification"]["complexity"] = Str(<<"complex">>))
    THEN "extract_chunks" ELSE "validate"

should_extract_chunk_metadata(s) ==
    IF "classification" \in DOMAIN s
         /\ "requires_deep_analysis" \in DOMAIN s["classification"]
         /\ Truthy(s["classification"]["requires_deep_analysis"])
    THEN "extract_chunks" ELSE "validate"

\* ------------------------------------------------------------------------
\* src/orchestration/graph.py: the edges of _build_graph
\* ------------------------------------------------------------------------
edge_after_classify(s) ==
    IF s["status"] = "failed" THEN "handle_error" ELSE "extract_doc_metadata"

edge_after_extract_doc_metadata(s) ==
    IF s["status"] = "failed" THEN "handle_error" ELSE "chunk"

edge_after_chunk(s) ==
    IF s["status"] = "failed" THEN "handle_error"
    ELSE should_extract_chunk_metadata(s)

\* workflow.add_edge("extract_chunks", "validate"): taken whatever the status
edge_after_extract_chunks(s) == "validate"

\* self.total_tokens_used += ...; self.total_cost += ... of one completion
\* made by a single caller
TrackUsage(model, usage) ==
    IF usage.present
    THEN /\ total_tokens_used' = total_tokens_used + usage.total_tokens
         /\ total_cost' = total_cost + estimate_cost(model, usage)
    ELSE UNCHANGED usageVars

\* f"${self.total_cost:.4f}" read back with float(): the cost rounded to
\* 1e-4 dollars (to the nearest, ties to even), in 1e-4 dollars
CostUnit == 100000
RoundedCost(cost) ==
    LET q == cost \div CostUnit
        r == cost % CostUnit
    IN  IF 2 * r > CostUnit \/ (2 * r = CostUnit /\ q % 2 = 1) THEN q + 1 ELSE q

get_usage_stats == [ total_tokens |-> total_tokens_used,
                     total_cost |-> RoundedCost(total_cost) ]

Raise(stage, o_raises, msg) ==
    raised' = IF o_raises THEN Append(raised, [stage |-> stage, msg |-> msg])
              ELSE raised

\* ------------------------------------------------------------------------
\* Actions of a pipeline run
\* ------------------------------------------------------------------------
ClassifyEnter ==
    /\ pc = "classify"
    /\ state' = classify_enter(state)
    /\ pc' = "classifying"
    /\ UNCHANGED << initial_state, result, raised, pipeline_exc, runs, usageVars >>
    /\ UNCHANGED << gatewayVars, threadVars, chunkVars, libVars >>

Classify ==
    /\ pc = "classifying"
    /\ \E o \in LLMOutcomes(ClassificationResponses) :
          /\ state' = classify_document_node(state, o)
          /\ TrackUsage("gpt-4o", o.usage)
          /\ Raise("classification", classify_exception(o).raises,
                   classify_exception(o).msg)
    /\ pc' = edge_after_classify(state')
    /\ UNCHANGED << initial_state, result, pipeline_exc, runs >>
    /\ UNCHANGED << gatewayVars, threadVars, chunkVars, libVars >>

ExtractDocMetadata ==
    /\ pc = "extract_doc_metadata"
    /\ \E o \in LLMOutcomes(MetadataResponses) :
          /\ state' = extract_doc_metadata_node(state, o)
          /\ TrackUsage("gpt-4o", o.usage)
          /\ Raise("doc_metadata_extraction", o.kind # "response", o.msg)
    /\ pc' = edge_after_extract_doc_metadata(state')
    /\ UNCHANGED << initial_state, result, pipeline_exc, runs >>
    /\ UNCHANGED << gatewayVars, threadVars, chunkVars, libVars >>

ChunkDocument ==
    /\ pc = "chunk"
    /\ \E o \in StageOutcomes :
          /\ state' = chunk_document_node(state, o)
          /\ Raise("chunking", o.raises, o.msg)
    /\ pc' = edge_after_chunk(state')
    /\ UNCHANGED << initial_state, result, pipeline_exc, runs, usageVars >>
    /\ UNCHANGED << gatewayVars, threadVars, chunkVars, libVars >>

ExtractChunkMetadata ==
    /\ pc = "extract_chunks"
    /\ \E o \in StageOutcomes :
          /\ state' = extract_chunk_metadata_node(state, o)
          /\ Raise("chunk_metadata_extraction", o.raises, o.msg)
    /\ pc' = edge_after_extract_chunks(state')
    /\ UNCHANGED << initial_state, result, pipeline_exc, runs, usageVars >>
    /\ UNCHANGED << gatewayVars, threadVars, chunkVars, libVars >>

ValidateMetadata ==
    /\ pc = "validate"
    /\ \E o \in StageOutcomes :
          /\ state' = validate_metadata_node(state, o)
          /\ Raise("validation", state'["status"] = "failed",
                   IF o.raises THEN o.msg
                   ELSE IF summary_exception(fix_minor_issues(state["doc_metadata"])) # ""
                           /\ business_rules_exception(
                                  fix_minor_issues(state["doc_metadata"])) = ""
                   THEN summary_exception(fix_minor_issues(state["doc_metadata"]))
                   ELSE business_rules_exception(
                            fix_minor_issues(state["doc_metadata"])))
    /\ pc' = "END"
    /\ UNCHANGED << initial_state, result, pipeline_exc, runs, usageVars >>
    /\ UNCHANGED << gatewayVars, threadVars, chunkVars, libVars >>

HandleError ==
    /\ pc = "handle_error"
    /\ state' = handle_error_node(state)
    /\ pc' = "END"
    /\ UNCHANGED << initial_state, result, raised, pipeline_exc, runs, usageVars >>
    /\ UNCHANGED << gatewayVars, threadVars, chunkVars, libVars >>

\* run(): graph.invoke returned; timing and usage are added to the final state
Return ==
    /\ pc = "END"
    /\ \E processing_time \in Durations :
          result' = Put(Put(Put(state, "processing_time", processing_time),
                            "tokens_used", get_usage_stats.total_tokens),
                        "estimated_cost", get_usage_stats.total_cost)
    /\ pc' = "returned"
    /\ UNCHANGED << state, initial_state, raised, pipeline_exc, runs, usageVars >>
    /\ UNCHANGED << gatewayVars, threadVars, chunkVars, libVars >>

\* run(): the except branch, for an exception that escapes the try block
PipelineException ==
    /\ pc \notin {"returned"}
    /\ \E msg \in PipelineMessages, processing_time \in Durations :
          result' = Put(mark_as_failed(initial_state, msg, "pipeline_execution"),
                        "processing_time", processing_time)
    /\ pipeline_exc' = TRUE
    /\ pc' = "returned"
    /\ UNCHANGED << state, initial_state, raised, runs, usageVars >>
    /\ UNCHANGED << gatewayVars, threadVars, chunkVars, libVars >>

\* run() of a second document resetting the gateway's counters first, so
\* that the run reports its own usage
RunResettingUsage ==
    /\ pc = "returned"
    /\ runs < MaxRuns
    /\ \E d \in DocumentIds, t \in RawTexts, f \in Filenames :
          initial_state' = create_initial_state(d, t, f)
    /\ state' = initial_state'
    /\ result' = << >>
    /\ raised' = << >>
    /\ pipeline_exc' = FALSE
    /\ pc' = "classify"
    /\ runs' = runs + 1
    /\ total_tokens_used' = 0
    /\ total_cost' = 0
    /\ UNCHANGED << gatewayVars, threadVars, chunkVars, libVars >>

\* the next call of run() on the same gateway
Run ==
    /\ pc = "returned"
    /\ runs < MaxRuns
    /\ \E d \in DocumentIds, t \in RawTexts, f \in Filenames :
          initial_state' = create_initial_state(d, t, f)
    /\ state' = initial_state'
    /\ result' = << >>
    /\ raised' = << >>
    /\ pipeline_exc' = FALSE
    /\ pc' = "classify"
    /\ runs' = runs + 1
    /\ UNCHANGED << usageVars, gatewayVars, threadVars, chunkVars, libVars >>

\* ------------------------------------------------------------------------
\* Initial states
\* ------------------------------------------------------------------------
\* settings.retry_max_attempts, its default
default_retry_max_attempts == 3

\* callers of the gateway that share one LLMClient instance
Threads == { "t1", "t2" }

\* no gateway call in progress
CallIdle ==
    [ op |-> "none", pc |-> "idle", model |-> "", attempt_number |-> 0,
      log |-> << >>, value |-> "", exception |-> "", slept |-> 0,
      texts |-> 0, batch_size |-> 0, batch |-> 0, batch_requests |-> 0,
      embeddings |-> 0, calls |-> 0 ]

ThreadIdle == [ pc |-> "idle", op |-> "none", tokens_used |-> 0, cost |-> 0,
                loaded |-> 0, calls |-> 0 ]

NothingIssued == [ tokens |-> 0, cost |-> 0 ]

\* no call of chunk_document in progress
ChunkerIdle ==
    [ pc |-> "idle", tokens |-> << >>, chunk_size |-> 0, chunk_overlap |-> 0,
      size |-> 0, overlap |-> 0, loop |-> ChunkLoopInit, spans |-> << >>,
      returned |-> << >>, calls |-> 0, beyond |-> 0 ]

\* no metadata dict allocated, no call of chunk_document made
HeapIdle ==
    [ pc |-> "idle", objects |-> << >>, document_metadata |-> 0,
      tokens |-> << >>, loop |-> ChunkLoopInit, returned |-> << >>,
      snapshot |-> << >>, mutated |-> {}, calls |-> 0 ]

\* no function call in progress
FcallIdle == [ pc |-> "idle", op |-> "none", arg |-> << >>, strict |-> FALSE,
               fix |-> FALSE,
               result |-> << >>, exception |-> "", errors |-> << >>, calls |-> 0 ]

\* no call of the store manager in progress
ScallIdle == [ pc |-> "idle", op |-> "none", document_id |-> "", chunks |-> << >>,
               ids |-> << >>, texts |-> << >>, metadatas |-> << >>,
               exception |-> "", repeated |-> FALSE, found |-> FALSE,
               before |-> << >>, calls |-> 0 ]

\* an empty collection; added is history: the documents add_chunks has
\* stored since they were last deleted
StoreIdle ==
    /\ collection = [ entries |-> << >>, on_existing_id |-> "ignore",
                      added |-> {} ]
    /\ scall = ScallIdle

\* no call of a PromptLoader method in progress
LcallIdle ==
    [ pc |-> "idle", op |-> "none", name |-> "", returned |-> << >>,
      exception |-> "", read |-> FALSE, before |-> << >>, calls |-> 0 ]

\* no call of an accessor in progress
GetterIdle == [ pc |-> "idle", accessor |-> "", got |-> 0, calls |-> 0,
                overlapped |-> FALSE ]

\* the accessors of the module globals _client, _validator and _pipeline
Accessors == { "get_llm_client", "get_validator", "get_pipeline" }

\* an empty prompts directory and cache; the module global is None
AuxIdle ==
    /\ prompt_files = << >>
    /\ cache = << >>
    /\ lcall = LcallIdle
    /\ singleton = [a \in Accessors |-> 0]
    /\ constructed = [a \in Accessors |-> 0]
    /\ getters = [t \in Threads |-> GetterIdle]

LibIdle ==
    /\ fcall = FcallIdle
    /\ StoreIdle

\* LLMClient.__init__
UsageInit ==
    /\ total_tokens_used = 0
    /\ total_cost = 0

PipelineIdle ==
    /\ initial_state = create_initial_state("doc_1", << >>, "")
    /\ state = initial_state
    /\ result = << >>
    /\ raised = << >>
    /\ pipeline_exc = FALSE
    /\ pc = "idle"
    /\ runs = 0

GatewayIdle ==
    /\ retry_max_attempts = default_retry_max_attempts
    /\ call = CallIdle

ThreadsIdle ==
    /\ threads = [t \in Threads |-> ThreadIdle]
    /\ issued = NothingIssued

Init ==
    /\ \E d \in DocumentIds, t \in RawTexts, f \in Filenames :
          initial_state = create_initial_state(d, t, f)
    /\ state = initial_state
    /\ result = << >>
    /\ raised = << >>
    /\ pipeline_exc = FALSE
    /\ pc = "classify"
    /\ runs = 1
    /\ UsageInit
    /\ GatewayIdle
    /\ ThreadsIdle
    /\ chunker = ChunkerIdle
    /\ heap = HeapIdle
    /\ AuxIdle
    /\ LibIdle

Next ==
    \/ ClassifyEnter
    \/ Classify
    \/ ExtractDocMetadata
    \/ ChunkDocument
    \/ ExtractChunkMetadata
    \/ ValidateMetadata
    \/ HandleError
    \/ Return
    \/ PipelineException
    \/ Run

Spec == Init /\ [][Next]_vars

\* ------------------------------------------------------------------------
\* Properties of a pipeline run
\* ------------------------------------------------------------------------
Returned == pc = "returned"

StatusChain ==
    { <<"pending", "classifying">>, <<"classifying", "extracting_metadata">>,
      <<"extracting_metadata", "chunking">>, <<"chunking", "extracting_chunks">>,
      <<"chunking", "validating">>, <<"extracting_chunks", "validating">>,
      <<"validating", "completed">> }

StatusMove(a, b) ==
    \/ a = b
    \/ <<a, b>> \in StatusChain
    \/ a \notin {"completed", "failed"} /\ b = "failed"

\* C2: within a run the status only moves forward along the chain of stages
\* or from a non-terminal status to failed; completed and failed are never
\* left
C2_StatusOrder ==
    [][runs' = runs => StatusMove(state["status"], state'["status"])]_vars

\* C3: classification is present from extracting_metadata on, doc_metadata
\* from chunking on, chunks from extracting_chunks on
C3_StagePresence ==
    /\ state["status"] \in {"extracting_metadata", "chunking", "extracting_chunks",
                            "validating", "completed"}
          => "classification" \in DOMAIN state
    /\ state["status"] \in {"chunking", "extracting_chunks", "validating",
                            "completed"}
          => "doc_metadata" \in DOMAIN state
    /\ state["status"] \in {"extracting_chunks", "validating", "completed"}
          => "chunks" \in DOMAIN state

\* the chunk stage has stored the chunks of a non-empty document
C3_Witness ==
    /\ state["status"] \in {"extracting_chunks", "validating"}
    /\ "chunks" \in DOMAIN state
    /\ state["chunks"] # << >>
    /\ {"classification", "doc_metadata"} \subseteq DOMAIN state

StatusOfNode(node) ==
    IF node = "extract_chunks" THEN "extracting_chunks" ELSE "validating"

C5_ValidationRecorded ==
    (Returned /\ ~pipeline_exc /\ raised = << >>)
        => /\ result["status"] = "completed"
           /\ result["is_valid"] <=> all_errors(result["doc_metadata"], TRUE) = << >>
           /\ ~result["is_valid"] => result["validation_errors"] # << >>

StagePrefix(stage) ==
    CASE stage = "classification" -> "Classification failed: "
      [] stage = "doc_metadata_extraction" -> "Document metadata extraction failed: "
      [] stage = "chunking" -> "Document chunking failed: "
      [] stage = "chunk_metadata_extraction" -> "Chunk metadata extraction failed: "
      [] OTHER -> "Validation failed unexpectedly: "

\* C6: when a stage raises, run() returns a failed state whose error_stage
\* names that stage and whose error carries its message
C6_StageFailure ==
    (Returned /\ ~pipeline_exc /\ raised # << >>)
        => /\ result["status"] = "failed"
           /\ {"error", "error_stage"} \subseteq DOMAIN result
           /\ \E i \in 1..Len(raised) :
                 /\ result["error_stage"] = raised[i].stage
                 /\ result["error"] = StagePrefix(raised[i].stage) \o raised[i].msg

\* ------------------------------------------------------------------------
\* src/utils/llm_client.py and src/storage/embedder.py: one caller of the
\* gateway; complete() is wrapped in tenacity's retry, embed() is not
\* ------------------------------------------------------------------------
MaxCalls == 2
MaxRetrySetting == 3
MaxEmbedTexts == 2

\* model argument of complete(); "" is None
Models == { "", "gpt-4o-mini" }
settings_openai_model_doc_extraction == "gpt-4o"
settings_openai_embedding_model == "text-embedding-3-small"

\* a response with the four fields of a classification
ClassificationContent ==
    "{\"complexity\": \"simple\", \"document_type\": \"HR Policy\", \"requires_deep_analysis\": false, \"confidence\": 0.95}"

\* response.choices[0].message.content or ""
Contents == { "", "{\"a\": 1}", ClassificationContent }

\* what one request to the model ends with
RequestOutcomes ==
    { [ ok |-> TRUE, val |-> c, usage |-> u ] : c \in Contents, u \in Usages }
    \cup { [ ok |-> FALSE, val |-> m, usage |-> NoUsage ] :
             m \in { "Request timed out.", "Rate limit reached" } }

\* batch_size argument of embed_texts; 100 is its default
embed_batch_size == 100
BatchSizes == { 1, embed_batch_size }

\* stop_after_attempt(n) of the off-by-one kind: one attempt too many
stop_after_attempt_exceeded(attempt_number, n) == attempt_number > n

\* stop=stop_after_attempt(settings.retry_max_attempts)
stop_after_attempt(attempt_number, n) == attempt_number >= n

retry_wait_seconds == 2
wait_min == 1
wait_max == 10

RECURSIVE Pow2(_)
Pow2(k) == IF k = 0 THEN 1 ELSE 2 * Pow2(k - 1)

\* wait=wait_exponential(multiplier=settings.retry_wait_seconds, min=1, max=10)
wait_exponential(attempt_number) ==
    LET w == retry_wait_seconds * Pow2(attempt_number - 1)
    IN  IF w > wait_max THEN wait_max ELSE IF w < wait_min THEN wait_min ELSE w

Logged(o) == [ ok |-> o.ok, val |-> o.val ]

\* a caller calls complete(prompt, model)
CompleteCall ==
    /\ call.pc \in {"idle", "returned", "raised"}
    /\ call.calls < MaxCalls
    /\ \E model \in Models :
          call' = [CallIdle EXCEPT
                      !.op = "complete", !.pc = "attempting",
                      !.model = IF model # "" THEN model
                                ELSE settings_openai_model_doc_extraction,
                      !.attempt_number = 1, !.calls = call.calls + 1]
    /\ UNCHANGED << pipeVars, usageVars, retry_max_attempts, threadVars, chunkVars, libVars >>

\* one attempt of complete(): the request, the usage accounting, and the
\* decision of the retry wrapper when the attempt raised
CompleteAttempt ==
    /\ call.op = "complete"
    /\ call.pc = "attempting"
    /\ \E o \in RequestOutcomes :
          /\ TrackUsage(call.model, o.usage)
          /\ call' = IF o.ok
                     THEN [call EXCEPT !.log = Append(@, Logged(o)),
                                       !.pc = "returned", !.value = o.val]
                     ELSE [call EXCEPT !.log = Append(@, Logged(o)),
                                       !.exception = o.val,
                                       !.pc = IF stop_after_attempt(
                                                   call.attempt_number,
                                                   retry_max_attempts)
                                              THEN "raised" ELSE "waiting"]
    /\ UNCHANGED << pipeVars, retry_max_attempts, threadVars, chunkVars, libVars >>

\* the retry wrapper sleeps and starts the next attempt
CompleteRetry ==
    /\ call.op = "complete"
    /\ call.pc = "waiting"
    /\ call' = [call EXCEPT !.slept = @ + wait_exponential(call.attempt_number),
                            !.attempt_number = @ + 1,
                            !.pc = "attempting"]
    /\ UNCHANGED << pipeVars, usageVars, retry_max_attempts, threadVars, chunkVars, libVars >>

\* number of batches of range(0, len(texts), batch_size)
BatchCount(n, batch_size) == (n + batch_size - 1) \div batch_size

\* a caller (add_chunks or search) calls embed_texts(texts, batch_size)
EmbedTextsCall ==
    /\ call.pc \in {"idle", "returned", "raised"}
    /\ call.calls < MaxCalls
    /\ \E n \in 0..MaxEmbedTexts, batch_size \in BatchSizes :
          call' = [CallIdle EXCEPT
                      !.op = "embed_texts",
                      !.pc = IF n = 0 THEN "returned" ELSE "attempting",
                      !.model = settings_openai_embedding_model,
                      !.texts = n, !.batch_size = batch_size,
                      !.batch = IF n = 0 THEN 0 ELSE 1,
                      !.calls = call.calls + 1]
    /\ UNCHANGED << pipeVars, usageVars, retry_max_attempts, threadVars, chunkVars, libVars >>

\* one iteration of the batch loop of embed_texts: llm_client.embed(batch)
EmbedBatch ==
    /\ call.op = "embed_texts"
    /\ call.pc = "attempting"
    /\ \E o \in RequestOutcomes :
          /\ o.ok => o.val = ""
          /\ IF o.usage.present
             THEN /\ total_tokens_used' = total_tokens_used + o.usage.total_tokens
                  /\ UNCHANGED total_cost
             ELSE UNCHANGED usageVars
          /\ call' =
               IF o.ok
               THEN LET done == call.batch = BatchCount(call.texts, call.batch_size)
                        in_batch ==
                            IF call.batch * call.batch_size <= call.texts
                            THEN call.batch_size
                            ELSE call.texts - (call.batch - 1) * call.batch_size
                    IN  [call EXCEPT !.log = Append(@, Logged(o)),
                                     !.batch_requests = 1,
                                     !.embeddings = @ + in_batch,
                                     !.batch = IF done THEN @ ELSE @ + 1,
                                     !.pc = IF done THEN "returned" ELSE "attempting"]
               ELSE [call EXCEPT !.log = Append(@, Logged(o)),
                                 !.batch_requests = 1,
                                 !.exception = o.val,
                                 !.pc = "raised"]
    /\ UNCHANGED << pipeVars, retry_max_attempts, threadVars, chunkVars, libVars >>

InitGateway ==
    /\ PipelineIdle
    /\ UsageInit
    /\ retry_max_attempts \in 1..MaxRetrySetting
    /\ call = CallIdle
    /\ ThreadsIdle
    /\ chunker = ChunkerIdle
    /\ heap = HeapIdle
    /\ AuxIdle
    /\ LibIdle

NextGateway ==
    \/ CompleteCall
    \/ CompleteAttempt
    \/ CompleteRetry
    \/ EmbedTextsCall
    \/ EmbedBatch

SpecGateway == InitGateway /\ [][NextGateway]_vars

Failures(log) == { i \in 1..Len(log) : ~log[i].ok }

\* C7: a call of complete issues at most retry_max_attempts requests, returns
\* the text of the first successful attempt without a further attempt, and
\* re-raises the exception of the last attempt when all attempts failed
C7_RetryBound ==
    call.op = "complete" =>
        /\ Len(call.log) <= retry_max_attempts
        /\ call.pc = "returned" =>
              /\ Failures(call.log) = 1..(Len(call.log) - 1)
              /\ call.value = call.log[Len(call.log)].val
        /\ call.pc = "raised" =>
              /\ Len(call.log) = retry_max_attempts
              /\ Failures(call.log) = 1..Len(call.log)
              /\ call.exception = call.log[Len(call.log)].val
        /\ call.pc \in {"attempting", "waiting"} =>
              Failures(call.log) = 1..Len(call.log)

\* complete raised after two different failures, the last one re-raised
C7_Witness ==
    /\ call.op = "complete"
    /\ call.pc = "raised"
    /\ Len(call.log) >= 2
    /\ call.log[1].val # call.log[Len(call.log)].val

\* C8: a failing embed request is attempted again, up to retry_max_attempts
\* times, before embed_texts surfaces the failure
C8_EmbedRetried ==
    (call.op = "embed_texts" /\ call.pc = "raised")
        => call.batch_requests = retry_max_attempts

\* ------------------------------------------------------------------------
\* src/utils/llm_client.py: several callers share one LLMClient.  The two
\* += of the usage accounting are a read and a write of the attribute; no
\* lock makes them one step
\* ------------------------------------------------------------------------
MaxThreadCalls == 2

\* response.usage of the calls of the concurrent callers
ThreadUsages ==
    { [ present |-> TRUE, prompt_tokens |-> 7, completion_tokens |-> 3,
        total_tokens |-> 10 ],
      [ present |-> TRUE, prompt_tokens |-> 4, completion_tokens |-> 1,
        total_tokens |-> 5 ] }

\* the request of thread t succeeded: tokens_used and, for a completion, cost
\* are the thread's locals
ThreadResponse(t) ==
    /\ threads[t].pc = "idle"
    /\ threads[t].calls < MaxThreadCalls
    /\ \E op \in {"complete", "embed"}, u \in ThreadUsages :
          LET cost == IF op = "complete"
                      THEN estimate_cost(settings_openai_model_doc_extraction, u)
                      ELSE 0
          IN  /\ threads' = [threads EXCEPT ![t] =
                    [ pc |-> "load_tokens", op |-> op,
                      tokens_used |-> u.total_tokens, cost |-> cost,
                      loaded |-> 0, calls |-> threads[t].calls + 1 ]]
              /\ issued' = [ tokens |-> issued.tokens + u.total_tokens,
                             cost |-> issued.cost + cost ]
    /\ UNCHANGED << pipeVars, usageVars, gatewayVars, chunkVars, libVars >>

\* self.total_tokens_used += tokens_used: the read
LoadTokens(t) ==
    /\ threads[t].pc = "load_tokens"
    /\ threads' = [threads EXCEPT ![t].loaded = total_tokens_used,
                                  ![t].pc = "store_tokens"]
    /\ UNCHANGED << pipeVars, usageVars, gatewayVars, issued, chunkVars, libVars >>

\* self.total_tokens_used += tokens_used: the write
StoreTokens(t) ==
    /\ threads[t].pc = "store_tokens"
    /\ total_tokens_used' = threads[t].loaded + threads[t].tokens_used
    /\ threads' = [threads EXCEPT ![t].pc =
                      IF threads[t].op = "complete" THEN "load_cost" ELSE "idle"]
    /\ UNCHANGED << pipeVars, total_cost, gatewayVars, issued, chunkVars, libVars >>

\* self.total_cost += cost: the read
LoadCost(t) ==
    /\ threads[t].pc = "load_cost"
    /\ threads' = [threads EXCEPT ![t].loaded = total_cost,
                                  ![t].pc = "store_cost"]
    /\ UNCHANGED << pipeVars, usageVars, gatewayVars, issued, chunkVars, libVars >>

\* self.total_cost += cost: the write
StoreCost(t) ==
    /\ threads[t].pc = "store_cost"
    /\ total_cost' = threads[t].loaded + threads[t].cost
    /\ threads' = [threads EXCEPT ![t].pc = "idle"]
    /\ UNCHANGED << pipeVars, total_tokens_used, gatewayVars, issued, chunkVars, libVars >>

AllIdle == \A t \in Threads : threads[t].pc = "idle"

\* reset_usage_stats(), called while no call is in its accounting
ResetUsageStats ==
    /\ AllIdle
    /\ total_tokens_used' = 0
    /\ total_cost' = 0
    /\ issued' = NothingIssued
    /\ UNCHANGED << pipeVars, gatewayVars, threads, chunkVars, libVars >>

InitUsage ==
    /\ PipelineIdle
    /\ UsageInit
    /\ GatewayIdle
    /\ ThreadsIdle
    /\ chunker = ChunkerIdle
    /\ heap = HeapIdle
    /\ AuxIdle
    /\ LibIdle

NextUsage ==
    \/ \E t \in Threads : ThreadResponse(t)
    \/ \E t \in Threads : LoadTokens(t)
    \/ \E t \in Threads : StoreTokens(t)
    \/ \E t \in Threads : LoadCost(t)
    \/ \E t \in Threads : StoreCost(t)
    \/ ResetUsageStats

SpecUsage == InitUsage /\ [][NextUsage]_vars

\* C9: with concurrent callers no usage increment is lost: once every call
\* has done its accounting, the totals are the sums of the tokens and of the
\* costs of the successful calls since the last reset
C9_NoLostUpdate ==
    AllIdle => /\ total_tokens_used = issued.tokens
               /\ total_cost = issued.cost

\* ------------------------------------------------------------------------
\* src/ingestion/chunker.py: the loop of chunk_document, one iteration a step
\* ------------------------------------------------------------------------
MaxChunkSize == 4
MaxChunkTokens == 3
MaxIterations == 5
MaxChunkCalls == 1

ChunkTexts == SeqsUpTo(Tokens, MaxChunkTokens)

\* chunk_size arguments: the small sizes, and one just above the configured
\* default overlap
ChunkSizes == 1..MaxChunkSize \cup { settings_chunk_overlap + 1 }

\* the positions of tokens[a:b] in tokens
SlicePositions(tokens, a, b) ==
    (SliceIndex(a, Len(tokens)) + 1) .. SliceIndex(b, Len(tokens))

\* chunk_document(text, chunk_size=s, chunk_overlap=o) with 0 <= o < s
ChunkCall ==
    /\ chunker.pc \in {"idle", "done"}
    /\ chunker.calls < MaxChunkCalls
    /\ \E tokens \in ChunkTexts, s \in ChunkSizes :
          \E o \in 0..(s - 1) :
             chunker' = [ChunkerIdle EXCEPT
                            !.pc = "loop", !.tokens = tokens,
                            !.chunk_size = s, !.chunk_overlap = o,
                            !.size = OrDefault(s, settings_chunk_size),
                            !.overlap = OrDefault(o, settings_chunk_overlap),
                            !.calls = chunker.calls + 1]
    /\ UNCHANGED << pipeVars, usageVars, gatewayVars, threadVars, heap, libVars >>

\* one iteration of the while loop
ChunkIterate ==
    /\ chunker.pc = "loop"
    /\ chunker.loop.start_idx < Len(chunker.tokens)
    /\ IF chunker.loop.chunk_num < MaxIterations
       THEN chunker' = [chunker EXCEPT
                      !.loop = ChunkLoopBody(chunker.loop, chunker.tokens,
                                             chunker.size, chunker.overlap, << >>),
                      !.spans = Append(@,
                          [ start_idx |-> chunker.loop.start_idx,
                            positions |-> SlicePositions(chunker.tokens,
                                              chunker.loop.start_idx,
                                              chunker.loop.start_idx + chunker.size) ])]
       ELSE \* start_idx does not advance, so the loop condition stays true:
            \* of the iterations past MaxIterations only the fact that one
            \* more ran is recorded, the chunks and indices being unbounded
            /\ chunker.size - chunker.overlap <= 0
            /\ chunker' = [chunker EXCEPT !.beyond = 1 - @]
    /\ UNCHANGED << pipeVars, usageVars, gatewayVars, threadVars, heap, libVars >>

\* the loop condition fails: return chunks
ChunkReturn ==
    /\ chunker.pc = "loop"
    /\ ~(chunker.loop.start_idx < Len(chunker.tokens))
    /\ chunker' = [chunker EXCEPT !.pc = "done", !.returned = chunker.loop.chunks]
    /\ UNCHANGED << pipeVars, usageVars, gatewayVars, threadVars, heap, libVars >>

InitChunk ==
    /\ PipelineIdle
    /\ UsageInit
    /\ GatewayIdle
    /\ ThreadsIdle
    /\ chunker = ChunkerIdle
    /\ heap = HeapIdle
    /\ AuxIdle
    /\ LibIdle

NextChunk ==
    \/ ChunkCall
    \/ ChunkIterate
    \/ ChunkReturn

SpecChunk == InitChunk /\ [][NextChunk]_vars

\* C10: the returned chunks are numbered 0, 1, 2, ... without gaps, and every
\* pair of consecutive chunks other than the pair ending in the final chunk
\* shares exactly o tokens, chunk i+1 starting s - o tokens after chunk i
C10_ChunkOverlap ==
    chunker.pc = "done" =>
        /\ \A i \in 1..Len(chunker.returned) :
              chunker.returned[i].chunk_number = i - 1
        /\ \A i \in 1..(Len(chunker.returned) - 2) :
              /\ Cardinality(chunker.spans[i].positions
                               \cap chunker.spans[i + 1].positions)
                    = chunker.chunk_overlap
              /\ chunker.spans[i + 1].start_idx - chunker.spans[i].start_idx
                    = chunker.chunk_size - chunker.chunk_overlap

\* ------------------------------------------------------------------------
\* src/ingestion/chunker.py: the metadata objects of the chunks.  A dict is
\* an object of the heap; a variable or a chunk field holds its reference
\* (its index in heap.objects, 0 for None)
\* ------------------------------------------------------------------------
MaxAliasCalls == 1
MaxMutations == 2

\* document_metadata arguments: None, the empty dict, a dict with a field
MetadataArgs == { "none", "empty", "filled" }

\* chunk_size and chunk_overlap of the calls whose objects are followed
AliasArgs == [ chunk_size |-> 2, chunk_overlap |-> 1 ]

AliasTexts == { t \in SeqsUpTo(Tokens, MaxTextTokens) : t # << >> }

\* what a caller writes into a chunk's metadata afterwards
Mutations == { [ key |-> "reviewed", value |-> "yes" ],
               [ key |-> "department", value |-> "Legal" ] }

\* document_metadata or {}: the argument itself when it is a non-empty dict,
\* a new empty dict otherwise
OrEmptyDict(objects, ref) ==
    IF ref # 0 /\ DOMAIN objects[ref] # {}
    THEN [ objects |-> objects, ref |-> ref ]
    ELSE [ objects |-> Append(objects, << >>), ref |-> Len(objects) + 1 ]

\* a caller builds its metadata and calls chunk_document
AliasCall ==
    /\ heap.pc \in {"idle", "returned"}
    /\ heap.calls < MaxAliasCalls
    /\ \E tokens \in AliasTexts, arg \in MetadataArgs :
          heap' = [HeapIdle EXCEPT
                      !.pc = "loop", !.tokens = tokens,
                      !.objects = CASE arg = "none" -> << >>
                                    [] arg = "empty" -> << << >> >>
                                    [] OTHER -> << [ k \in {"department"} |-> "HR" ] >>,
                      !.document_metadata = IF arg = "none" THEN 0 ELSE 1,
                      !.calls = heap.calls + 1]
    /\ UNCHANGED << pipeVars, usageVars, gatewayVars, threadVars, chunker, libVars >>

\* one iteration of the loop: the chunk's "metadata" is document_metadata or {}
AliasIterate ==
    /\ heap.pc = "loop"
    /\ heap.loop.start_idx < Len(heap.tokens)
    /\ LET m == OrEmptyDict(heap.objects, heap.document_metadata)
       IN  heap' = [heap EXCEPT
                       !.objects = m.objects,
                       !.loop = ChunkLoopBody(heap.loop, heap.tokens,
                          OrDefault(AliasArgs.chunk_size, settings_chunk_size),
                          OrDefault(AliasArgs.chunk_overlap, settings_chunk_overlap),
                          m.ref)]
    /\ UNCHANGED << pipeVars, usageVars, gatewayVars, threadVars, chunker, libVars >>

\* return chunks; snapshot remembers what every object held at that moment
AliasReturn ==
    /\ heap.pc = "loop"
    /\ ~(heap.loop.start_idx < Len(heap.tokens))
    /\ heap' = [heap EXCEPT !.pc = "returned", !.returned = heap.loop.chunks,
                            !.snapshot = heap.objects]
    /\ UNCHANGED << pipeVars, usageVars, gatewayVars, threadVars, chunker, libVars >>

\* chunks[i]["metadata"][key] = value
AliasMutate ==
    /\ heap.pc = "returned"
    /\ Cardinality(heap.mutated) < MaxMutations
    /\ \E i \in 1..Len(heap.returned), mu \in Mutations :
          /\ i \notin heap.mutated
          /\ heap' = [heap EXCEPT
                         !.objects[heap.returned[i].metadata] =
                               Put(@, mu.key, mu.value),
                         !.mutated = @ \cup {i}]
    /\ UNCHANGED << pipeVars, usageVars, gatewayVars, threadVars, chunker, libVars >>

InitAlias ==
    /\ PipelineIdle
    /\ UsageInit
    /\ GatewayIdle
    /\ ThreadsIdle
    /\ chunker = ChunkerIdle
    /\ heap = HeapIdle
    /\ AuxIdle
    /\ LibIdle

NextAlias ==
    \/ AliasCall
    \/ AliasIterate
    \/ AliasReturn
    \/ AliasMutate

SpecAlias == InitAlias /\ [][NextAlias]_vars

\* C11: every chunk has a metadata object of its own: after the metadata of
\* some chunks were written to, the metadata of every other chunk and the
\* mapping the caller passed in hold what they held when chunk_document
\* returned
C11_MetadataCopy ==
    heap.pc = "returned" =>
        /\ \A j \in 1..Len(heap.returned) :
              j \notin heap.mutated =>
                 heap.objects[heap.returned[j].metadata]
                    = heap.snapshot[heap.returned[j].metadata]
        /\ heap.document_metadata # 0 =>
              heap.objects[heap.document_metadata]
                 = heap.snapshot[heap.document_metadata]

\* ------------------------------------------------------------------------
\* src/metadata/classifier.py: classify on the responses a model can give
\* ------------------------------------------------------------------------
MaxFcalls == 1

\* everything but the function call in progress
coreVars == << pipeVars, usageVars, gatewayVars, threadVars, chunkVars, auxVars >>

\* values a model can put into the fields of its classification
ComplexityValues ==
    { Str(<<"simple">>), Str(<<"complex">>), Str(<<"very", " ", "hard">>),
      Num(1), Null }
DocumentTypeValues == { Str(<<"Memo">>), Str(<<"Contract">>), Null }
DeepAnalysisValues == { Bool(TRUE), Str(<<"false">>), Null }
ConfidenceValues ==
    { Num(0), Num(95), Num(100), Num(150), Num(-5), Bool(TRUE),
      Str(<<"high">>), Null }

\* responses holding the four required fields, with or without a reasoning
FullResponses ==
    { [ complexity |-> c, document_type |-> d, requires_deep_analysis |-> r,
        confidence |-> f ] :
        c \in ComplexityValues, d \in DocumentTypeValues,
        r \in DeepAnalysisValues, f \in ConfidenceValues }
    \cup { [ complexity |-> c, document_type |-> d, requires_deep_analysis |-> r,
             confidence |-> f, reasoning |-> Str(<<"policy", " ", "text">>) ] :
             c \in ComplexityValues, d \in DocumentTypeValues,
             r \in DeepAnalysisValues, f \in ConfidenceValues }

\* classify(document_text): complete_json has returned this response
ClassifyCall ==
    /\ fcall.pc \in {"idle", "returned", "raised"}
    /\ fcall.calls < MaxFcalls
    /\ \E response \in FullResponses :
          fcall' = [FcallIdle EXCEPT !.pc = "called", !.op = "classify",
                                     !.arg = response,
                                     !.calls = fcall.calls + 1]
    /\ UNCHANGED << coreVars, storeVars >>

\* result = self._parse_classification(response); return result, or the
\* except branch that logs and raises again
ClassifyParse ==
    /\ fcall.pc = "called"
    /\ fcall.op = "classify"
    /\ LET exc == parse_classification_exception(fcall.arg)
       IN  fcall' = IF exc # ""
                    THEN [fcall EXCEPT !.pc = "raised", !.exception = exc]
                    ELSE [fcall EXCEPT !.pc = "returned",
                                       !.result = parse_classification(fcall.arg)]
    /\ UNCHANGED << coreVars, storeVars >>

InitClassify ==
    /\ PipelineIdle
    /\ UsageInit
    /\ GatewayIdle
    /\ ThreadsIdle
    /\ chunker = ChunkerIdle
    /\ heap = HeapIdle
    /\ AuxIdle
    /\ LibIdle

NextClassify ==
    \/ ClassifyCall
    \/ ClassifyParse

SpecClassify == InitClassify /\ [][NextClassify]_vars

\* C12: on a response with the four required fields classify returns, and
\* its result has a complexity of COMPLEXITY_LEVELS (the response's, or
\* "structured"), a document_type of DOCUMENT_TYPES (the response's, or
\* "Other") and a confidence in [0,1] (the response's, clamped)
C12_ClassifySafe ==
    (fcall.op = "classify" /\ fcall.pc # "called") =>
        /\ fcall.pc = "returned"
        /\ fcall.result["complexity"] =
              (IF fcall.arg["complexity"] \in { Str(l) : l \in COMPLEXITY_LEVELS }
               THEN fcall.arg["complexity"] ELSE Str(<<"structured">>))
        /\ fcall.result["document_type"] =
              (IF fcall.arg["document_type"] \in { Str(l) : l \in DOCUMENT_TYPES }
               THEN fcall.arg["document_type"] ELSE Str(<<"Other">>))
        /\ fcall.result["confidence"].t \in {"num", "bool"}
        /\ fcall.result["confidence"].t = "num" =>
              /\ fcall.result["confidence"].n >= MIN_CONFIDENCE
              /\ fcall.result["confidence"].n <= MAX_CONFIDENCE
              /\ fcall.result["confidence"].n =
                    (IF fcall.arg["confidence"].n < MIN_CONFIDENCE THEN MIN_CONFIDENCE
                     ELSE IF fcall.arg["confidence"].n > MAX_CONFIDENCE
                     THEN MAX_CONFIDENCE ELSE fcall.arg["confidence"].n)

\* ------------------------------------------------------------------------
\* src/metadata/validator.py: _fix_minor_issues and validate on the metadata
\* an extraction can produce
\* ------------------------------------------------------------------------
\* a field the metadata does not hold
Absent == J("absent", <<>>, 0, FALSE, <<>>)

DepartmentValues == { Absent, Str(<<"HR">>), Str(<<" ", "HR", " ">>) }
AuthorityValues ==
    { Str(<<"official">>), Str(<<" ", "Official">>), Str(<<"DRAFT", " ">>) }
TopicsValues ==
    { Str(<<"remote_work">>), Null, List(<<>>),
      List(<<Str(<<" ", "annual_leave">>), Str(<<" ">>), Str(<<>>), Num(0)>>),
      List(<<Str(<<"annual_leave">>), Str(<<"annual_leave">>)>>) }
KeyEntitiesValues == { Absent, List(<<>>), List(<<Str(<<" ">>)>>), Str(<<>>) }
ExpirationValues == { Absent, Str(<<>>), Str(<<"2024-01-01">>) }
VersionValues == { Absent, Str(<<"1.0">>), Str(<<" ", "1.0">>), Num(100) }

\* the dict with these values, the absent fields left out
MakeMetadata(department, authority_level, topics, key_entities,
             expiration_date, version) ==
    LET all == [ document_type |-> Str(<<"Memo">>),
                 department |-> department,
                 authority_level |-> authority_level,
                 topics |-> topics,
                 intended_audience |-> List(<<Str(<<"all_employees">>)>>),
                 key_entities |-> key_entities,
                 expiration_date |-> expiration_date,
                 version |-> version ]
    IN  Without(all, { k \in DOMAIN all : all[k] = Absent })

ValidatorInputs ==
    { MakeMetadata(d, a, t, k, e, v) :
        d \in DepartmentValues, a \in AuthorityValues, t \in TopicsValues,
        k \in KeyEntitiesValues, e \in ExpirationValues, v \in VersionValues }

\* self._fix_minor_issues(metadata) is called
FixCall ==
    /\ fcall.pc \in {"idle", "returned", "raised"}
    /\ fcall.calls < MaxFcalls
    /\ \E metadata \in ValidatorInputs :
          fcall' = [FcallIdle EXCEPT !.pc = "called", !.op = "fix",
                                     !.arg = metadata,
                                     !.calls = fcall.calls + 1]
    /\ UNCHANGED << coreVars, storeVars >>

\* return fixed
FixReturn ==
    /\ fcall.pc = "called"
    /\ fcall.op = "fix"
    /\ fcall' = [fcall EXCEPT !.pc = "returned",
                              !.result = fix_minor_issues(fcall.arg)]
    /\ UNCHANGED << coreVars, storeVars >>

\* validate(metadata, strict, fix_minor_issues) is called
ValidateCall ==
    /\ fcall.pc \in {"idle", "returned", "raised"}
    /\ fcall.calls < MaxFcalls
    /\ \E metadata \in ValidatorInputs, strict \in BOOLEAN, fix \in BOOLEAN :
          fcall' = [FcallIdle EXCEPT !.pc = "called", !.op = "validate",
                                     !.arg = metadata, !.strict = strict,
                                     !.fix = fix,
                                     !.calls = fcall.calls + 1]
    /\ UNCHANGED << coreVars, storeVars >>

\* the body of validate: it raises what a pass raised, or
\* MetadataValidationError(all_errors), or returns metadata
ValidateReturn ==
    /\ fcall.pc = "called"
    /\ fcall.op = "validate"
    /\ LET exc == validate_exception(fcall.arg, fcall.strict, fcall.fix)
       IN  fcall' =
             CASE exc = "none" ->
                    [fcall EXCEPT !.pc = "returned",
                                  !.result = validate(fcall.arg, fcall.strict,
                                                      fcall.fix)]
               [] exc = "MetadataValidationError" ->
                    [fcall EXCEPT !.pc = "raised", !.exception = exc,
                                  !.errors = all_errors(fcall.arg, fcall.fix)]
               [] OTHER ->
                    [fcall EXCEPT !.pc = "raised", !.exception = exc]
    /\ UNCHANGED << coreVars, storeVars >>

InitValidator ==
    /\ PipelineIdle
    /\ UsageInit
    /\ GatewayIdle
    /\ ThreadsIdle
    /\ chunker = ChunkerIdle
    /\ heap = HeapIdle
    /\ AuxIdle
    /\ LibIdle

NextValidator ==
    \/ FixCall
    \/ FixReturn
    \/ ValidateCall
    \/ ValidateReturn

SpecValidator == InitValidator /\ [][NextValidator]_vars

\* C13: _fix_minor_issues is idempotent: applied to what it returned, it
\* returns the same mapping
C13_FixIdempotent ==
    (fcall.op = "fix" /\ fcall.pc = "returned") =>
        fix_minor_issues(fcall.result) = fcall.result

\* a call of _fix_minor_issues that changed its argument: it converted
\* topics to a list, stripped a string and dropped an empty key_entities
C13_Witness ==
    /\ fcall.op = "fix"
    /\ fcall.pc = "returned"
    /\ fcall.arg["topics"].t = "str"
    /\ fcall.result["topics"].t = "list"
    /\ "department" \in DOMAIN fcall.arg
    /\ fcall.result["department"] # fcall.arg["department"]
    /\ "key_entities" \in DOMAIN fcall.arg
    /\ "key_entities" \notin DOMAIN fcall.result

\* the errors the two passes of validate find on the metadata they look at;
\* a pass that raises has found none
PassErrors(metadata, fix) ==
    LET m == validate_fixed(metadata, fix)
    IN  validate_schema(m)
        \o (IF business_rules_exception(m) # "" THEN << >>
            ELSE validate_business_rules(m))

\* C14: validate with strict=True ends with a MetadataValidationError exactly
\* when the schema pass or the business-rule pass found an error, and the
\* exception carries the errors of both passes; with strict=False it returns
\* the metadata (fixed when fix_minor_issues is set) and raises nothing
C14_StrictValidate ==
    (fcall.op = "validate" /\ fcall.pc # "called") =>
        /\ fcall.strict =>
              /\ (fcall.pc = "raised" /\ fcall.exception = "MetadataValidationError")
                    <=> PassErrors(fcall.arg, fcall.fix) # << >>
              /\ fcall.exception = "MetadataValidationError" =>
                    fcall.errors = PassErrors(fcall.arg, fcall.fix)
        /\ ~fcall.strict =>
              /\ fcall.pc = "returned"
              /\ fcall.result = validate_fixed(fcall.arg, fcall.fix)

\* ------------------------------------------------------------------------
\* src/storage/chroma_manager.py: add_chunks and delete_document on a
\* collection.  collection.add writes all entries or none; for an id the
\* collection already holds it either leaves the entry as it is or rejects
\* the call, depending on the library version (collection.on_existing_id)
\* ------------------------------------------------------------------------
MaxStoreCalls == 3

\* a nested dict, which the flattening drops
Dict == J("dict", <<>>, 0, FALSE, <<>>)

\* str(v) of a list item
ItemStr(v) ==
    CASE v.t = "str" -> v.s
      [] v.t = "num" -> << ToString(v.n) >>
      [] v.t = "bool" -> << IF v.b THEN "True" ELSE "False" >>
      [] OTHER -> << "None" >>

\* ", ".join(str(v) for v in value)
RECURSIVE JoinItems(_)
JoinItems(l) ==
    IF l = << >> THEN << >>
    ELSE IF Len(l) = 1 THEN ItemStr(l[1])
    ELSE ItemStr(Head(l)) \o << ", " >> \o JoinItems(Tail(l))

\* the ids counted up from the size of the collection, as a store without
\* deterministic ids would assign them
chunk_id_by_count(document_id, chunk) ==
    document_id \o "_chunk_"
       \o ToString(Cardinality(DOMAIN collection.entries) + chunk.chunk_number)

\* f"{document_id}_chunk_{chunk['chunk_number']}"
chunk_id(document_id, chunk) ==
    document_id \o "_chunk_" \o ToString(chunk.chunk_number)

\* _prepare_metadata without metadata["document_id"] = document_id
prepare_metadata_no_document_id(chunk, document_id) ==
    LET own == Put(Put(Put(chunk.metadata,
                   "chunk_number", Num(chunk.chunk_number)),
                   "start_char", Num(chunk.start_char)),
                   "end_char", Num(chunk.end_char))
        extra == IF "chunk_metadata" \in DOMAIN chunk
                 THEN { k \in DOMAIN chunk.chunk_metadata :
                            chunk.chunk_metadata[k].t \notin {"list", "dict"} }
                 ELSE {}
        merged == [ k \in DOMAIN own \cup { "chunk_" \o e : e \in extra } |->
                      IF \E e \in extra : k = "chunk_" \o e
                      THEN chunk.chunk_metadata[CHOOSE e \in extra : k = "chunk_" \o e]
                      ELSE own[k] ]
        kept == { k \in DOMAIN merged : merged[k].t \notin {"dict", "null"} }
    IN  [ k \in kept |-> IF merged[k].t = "list"
                         THEN Str(JoinItems(merged[k].l)) ELSE merged[k] ]

\* _prepare_metadata(chunk, document_id)
prepare_metadata(chunk, document_id) ==
    LET own == Put(Put(Put(Put(chunk.metadata,
                   "document_id", Str(<<document_id>>)),
                   "chunk_number", Num(chunk.chunk_number)),
                   "start_char", Num(chunk.start_char)),
                   "end_char", Num(chunk.end_char))
        extra == IF "chunk_metadata" \in DOMAIN chunk
                 THEN { k \in DOMAIN chunk.chunk_metadata :
                            chunk.chunk_metadata[k].t \notin {"list", "dict"} }
                 ELSE {}
        merged == [ k \in DOMAIN own \cup { "chunk_" \o e : e \in extra } |->
                      IF \E e \in extra : k = "chunk_" \o e
                      THEN chunk.chunk_metadata[CHOOSE e \in extra : k = "chunk_" \o e]
                      ELSE own[k] ]
        kept == { k \in DOMAIN merged : merged[k].t \notin {"dict", "null"} }
    IN  [ k \in kept |-> IF merged[k].t = "list"
                         THEN Str(JoinItems(merged[k].l)) ELSE merged[k] ]

\* the documents of the store's callers and the chunks the pipeline gave
\* for each: the same chunks whenever the document is stored again
StoreDocumentIds == { "doc_1", "doc_2", "doc_3" }

DocumentChunks(document_id) ==
    CASE document_id = "doc_1" ->
           << [ text |-> <<"a", "bb">>, chunk_number |-> 0, start_char |-> 0,
                end_char |-> 3,
                metadata |-> [ department |-> Str(<<"HR">>),
                               topics |-> List(<<Str(<<"annual_leave">>),
                                                 Str(<<"remote_work">>)>>),
                               version |-> Null ] ],
              [ text |-> <<"bb">>, chunk_number |-> 1, start_char |-> 1,
                end_char |-> 3,
                metadata |-> [ department |-> Str(<<"HR">>),
                               topics |-> List(<<Str(<<"annual_leave">>),
                                                 Str(<<"remote_work">>)>>),
                               version |-> Null ] ] >>
      [] document_id = "doc_2" ->
           << [ text |-> <<"a">>, chunk_number |-> 0, start_char |-> 0,
                end_char |-> 1,
                metadata |-> [ department |-> Str(<<"Legal">>),
                               document_id |-> Str(<<"doc_1">>) ],
                chunk_metadata |-> [ section |-> Str(<<"intro">>),
                                     links |-> List(<<>>),
                                     nested |-> Dict ] ] >>
      [] OTHER -> << >>

\* the entry collection.add stores for a chunk
Entry(chunk, document_id) ==
    [ document |-> chunk.text,
      embedding |-> << "embedding of" >> \o chunk.text,
      metadata |-> prepare_metadata(chunk, document_id) ]

\* add_chunks(chunks, document_id) is called: the early return on an empty
\* list, else the loop that prepares ids, texts and metadatas
AddChunksCall ==
    /\ scall.pc \in {"idle", "returned", "raised"}
    /\ scall.calls < MaxStoreCalls
    /\ \E document_id \in StoreDocumentIds :
          LET chunks == DocumentChunks(document_id)
          IN  scall' =
                [ScallIdle EXCEPT
                    !.pc = IF chunks = << >> THEN "returned" ELSE "embed",
                    !.op = "add_chunks",
                    !.document_id = document_id,
                    !.chunks = chunks,
                    !.repeated = document_id \in collection.added,
                    !.ids = [i \in 1..Len(chunks) |-> chunk_id(document_id, chunks[i])],
                    !.texts = [i \in 1..Len(chunks) |-> chunks[i].text],
                    !.metadatas = [i \in 1..Len(chunks) |->
                                      prepare_metadata(chunks[i], document_id)],
                    !.calls = scall.calls + 1]
    /\ UNCHANGED << coreVars, fcall, collection >>

\* add_chunks catching the embedding failure and going on to collection.add
AddChunksEmbedSwallowed ==
    /\ scall.pc = "embed"
    /\ \E ok \in BOOLEAN :
          scall' = IF ok THEN [scall EXCEPT !.pc = "add"]
                   ELSE [scall EXCEPT !.pc = "add",
                                      !.exception = "Connection error."]
    /\ UNCHANGED << coreVars, fcall, collection >>

\* embeddings_list = self.embedder.embed_texts(texts): it returns or raises
AddChunksEmbed ==
    /\ scall.pc = "embed"
    /\ \E ok \in BOOLEAN :
          scall' = IF ok THEN [scall EXCEPT !.pc = "add"]
                   ELSE [scall EXCEPT !.pc = "raised",
                                      !.exception = "Connection error."]
    /\ UNCHANGED << coreVars, fcall, collection >>

\* self.collection.add(ids, documents, embeddings, metadatas), and the
\* except branch that logs and raises again
AddChunksAdd ==
    /\ scall.pc = "add"
    /\ \E ok \in BOOLEAN :
          LET existing == { i \in 1..Len(scall.ids) :
                               scall.ids[i] \in DOMAIN collection.entries }
              new == { scall.ids[i] : i \in 1..Len(scall.ids) }
                        \ DOMAIN collection.entries
              index(id) == CHOOSE i \in 1..Len(scall.ids) : scall.ids[i] = id
          IN  IF ~ok
              THEN /\ scall' = [scall EXCEPT !.pc = "raised",
                                             !.exception = "database is locked"]
                   /\ UNCHANGED collection
              ELSE IF existing # {} /\ collection.on_existing_id = "raise"
              THEN /\ scall' = [scall EXCEPT !.pc = "raised",
                                             !.exception = "IDAlreadyExistsError"]
                   /\ UNCHANGED collection
              ELSE /\ scall' = [scall EXCEPT !.pc = "returned"]
                   /\ collection' =
                        [collection EXCEPT
                           !.entries =
                              [ id \in DOMAIN collection.entries \cup new |->
                                  IF id \in new
                                  THEN [ document |-> scall.texts[index(id)],
                                         embedding |-> << "embedding of" >>
                                                          \o scall.texts[index(id)],
                                         metadata |-> scall.metadatas[index(id)] ]
                                  ELSE collection.entries[id] ],
                           !.added = @ \cup { scall.document_id }]
    /\ UNCHANGED << coreVars, fcall >>

\* the ids collection.get(where={"document_id": document_id}) returns
IdsOfDocument(document_id) ==
    { id \in DOMAIN collection.entries :
         /\ "document_id" \in DOMAIN collection.entries[id].metadata
         /\ collection.entries[id].metadata["document_id"] = Str(<<document_id>>) }

\* delete_document(document_id): get the ids, delete them if there are any;
\* a failure of the collection is logged and raised again
DeleteDocument ==
    /\ scall.pc \in {"idle", "returned", "raised"}
    /\ scall.calls < MaxStoreCalls
    /\ \E document_id \in StoreDocumentIds, ok \in BOOLEAN :
          LET ids == IdsOfDocument(document_id)
          IN  /\ scall' = [ScallIdle EXCEPT
                             !.pc = IF ok THEN "returned" ELSE "raised",
                             !.op = "delete_document",
                             !.document_id = document_id,
                             !.exception = IF ok THEN "" ELSE "database is locked",
                             !.found = ids # {},
                             !.before = collection.entries,
                             !.calls = scall.calls + 1]
              /\ collection' =
                   IF ok
                   THEN [collection EXCEPT
                           !.entries = [ id \in DOMAIN collection.entries \ ids |->
                                            collection.entries[id] ],
                           !.added = @ \ { document_id }]
                   ELSE collection
    /\ UNCHANGED << coreVars, fcall >>

InitStore ==
    /\ PipelineIdle
    /\ UsageInit
    /\ GatewayIdle
    /\ ThreadsIdle
    /\ chunker = ChunkerIdle
    /\ heap = HeapIdle
    /\ AuxIdle
    /\ fcall = FcallIdle
    /\ scall = ScallIdle
    /\ \E policy \in {"ignore", "raise"} :
          collection = [ entries |-> << >>, on_existing_id |-> policy,
                         added |-> {} ]

NextStore ==
    \/ AddChunksCall
    \/ AddChunksEmbed
    \/ AddChunksAdd
    \/ DeleteDocument

SpecStore == InitStore /\ [][NextStore]_vars

\* the id the store contract gives chunk N of a document
ClaimedId(document_id, chunk_number) ==
    document_id \o "_chunk_" \o ToString(chunk_number)

\* the chunk numbers in use
StoreChunkNumbers ==
    UNION { { DocumentChunks(d)[i].chunk_number : i \in 1..Len(DocumentChunks(d)) } :
              d \in StoreDocumentIds }

ClaimedIds(document_id) ==
    { ClaimedId(document_id, n) : n \in StoreChunkNumbers }

\* the entries of the collection that belong to document_id: by their id or
\* by their document_id field
EntriesOf(document_id) ==
    LET ids == { id \in DOMAIN collection.entries :
                   \/ id \in ClaimedIds(document_id)
                   \/ /\ "document_id" \in DOMAIN collection.entries[id].metadata
                      /\ collection.entries[id].metadata["document_id"]
                            = Str(<<document_id>>) }
    IN  [ id \in ids |-> collection.entries[id] ]

\* what one successful add_chunks(DocumentChunks(d), d) stores
ExpectedEntries(document_id) ==
    LET chunks == DocumentChunks(document_id)
    IN  [ id \in { ClaimedId(document_id, chunks[i].chunk_number) :
                     i \in 1..Len(chunks) } |->
            Entry(chunks[CHOOSE i \in 1..Len(chunks) :
                            ClaimedId(document_id, chunks[i].chunk_number) = id],
                  document_id) ]

\* C15: once add_chunks has succeeded for a document, every further call with
\* the same chunks and document_id, whether it succeeds or fails and whatever
\* failed before, leaves exactly one entry per id document_id_chunk_N, with
\* the contents a single successful call stores
C15_AddIdempotent ==
    \A d \in collection.added : EntriesOf(d) = ExpectedEntries(d)

\* add_chunks was called again for a document already stored and returned
C15_Witness ==
    /\ scall.op = "add_chunks"
    /\ scall.pc = "returned"
    /\ scall.repeated
    /\ scall.chunks # << >>
    /\ EntriesOf(scall.document_id) = ExpectedEntries(scall.document_id)

\* C16: delete_document(d) that returns leaves no entry of d (none with the
\* document_id d, none under an id d_chunk_N), leaves every other entry as
\* it was, and changes nothing when no entry matched; a call that raises
\* (the collection failed) changes nothing either and is never due to d
\* having no entries
C16_DeleteDocument ==
    scall.op = "delete_document" =>
        LET d == scall.document_id
            of_d == { id \in DOMAIN scall.before :
                        \/ id \in ClaimedIds(d)
                        \/ /\ "document_id" \in DOMAIN scall.before[id].metadata
                           /\ scall.before[id].metadata["document_id"] = Str(<<d>>) }
        IN  /\ scall.pc = "returned" =>
                 /\ DOMAIN collection.entries = DOMAIN scall.before \ of_d
                 /\ \A id \in DOMAIN collection.entries :
                       collection.entries[id] = scall.before[id]
                 /\ ~scall.found => collection.entries = scall.before
            /\ scall.pc = "raised" =>
                 /\ collection.entries = scall.before
                 /\ scall.exception = "database is locked"

\* delete_document removed the entries of one document and kept another's
C16_Witness ==
    /\ scall.op = "delete_document"
    /\ scall.pc = "returned"
    /\ scall.found
    /\ collection.entries # << >>
    /\ DOMAIN collection.entries # DOMAIN scall.before

\* ------------------------------------------------------------------------
\* Retrieval: src/src/retrieval/retriever.py over ChromaManager.search
\* ------------------------------------------------------------------------
MaxTopK == 2
MaxRetrieveCalls == 1

\* settings.top_k_retrieval
top_k_retrieval == 5
\* 1.0 as a score or a distance: both are kept in hundredths
ScoreUnit == 100

Queries == { << "remote", " ", "work?" >> }

\* retrieve's top_k argument: None, or an integer
TopKArgs ==
    { [ none |-> TRUE, k |-> 0 ] } \cup { [ none |-> FALSE, k |-> k ] : k \in 0..MaxTopK }

\* the distances collection.query can report, nearest first
DistanceValues == { 0, 40, 150 }

\* dict.get(key, default) of a value that is Absent when the key is missing
Get(v, default) == IF v = Absent THEN default ELSE v

\* the value of required_filters in a response: t is its JSON type, fields
\* its items when it is an object
RequiredFilters(t, fields) == [ t |-> t, fields |-> fields ]

EmptyFilters == RequiredFilters("dict", << >>)

\* an object built from the fields that are not Absent
FilterDict(document_type, department, topics, audience) ==
    LET all == [ document_type |-> document_type, department |-> department,
                 topics |-> topics, audience |-> audience ]
        keys == { k \in DOMAIN all : all[k] # Absent }
    IN  RequiredFilters("dict", [ k \in keys |-> all[k] ])

DocumentTypeFilters ==
    { Absent, List(<< Str(<<"policy">>) >>),
      List(<< Str(<<"policy">>), Str(<<"memo">>) >>) }

DepartmentFilters ==
    { Absent, Null, List(<< >>), List(<< Str(<<"HR">>) >>),
      List(<< Str(<<"HR">>), Str(<<"Legal">>) >>), Str(<<"HR">>), Num(5) }

TopicFilters ==
    { << Absent, Absent >>,
      << List(<< Str(<<"remote_work">>) >>), List(<< Str(<<"employees">>) >>) >> }

RequiredFiltersValues ==
    { FilterDict(document_type, department, other[1], other[2]) :
         document_type \in DocumentTypeFilters,
         department \in DepartmentFilters,
         other \in TopicFilters }
    \cup { RequiredFilters("absent", << >>), RequiredFilters("null", << >>),
           RequiredFilters("num", << >>) }

\* a decoded response of the query_understanding prompt
Analysis(t, intent, reformulated_query, required_filters) ==
    [ t |-> t, intent |-> intent, reformulated_query |-> reformulated_query,
      required_filters |-> required_filters ]

\* what complete_json can return: objects with the fields of the prompt,
\* objects that lack some of them or hold them with another type, and a
\* response that is valid JSON but no object
AnalysisResponses ==
    { Analysis("dict", Str(<<"procedural">>), Str(<<"apply for remote work">>),
               required_filters) : required_filters \in RequiredFiltersValues }
    \cup { Analysis("dict", Absent, Absent, RequiredFilters("absent", << >>)),
           Analysis("dict", Str(<<"procedural">>), Null, EmptyFilters),
           Analysis("list", Absent, Absent, RequiredFilters("absent", << >>)) }

\* the analysis both except branches of _understand_query return
DefaultAnalysis(query) ==
    Analysis("dict", Str(<<"factual">>), Str(query), EmptyFilters)

\* a where clause of the store: None, one clause, or {"$and": clauses}
NoWhere == [ t |-> "None", clauses |-> << >> ]
Clause(field, op, value) == [ field |-> field, op |-> op, value |-> value ]

FilterFields == << "document_type", "department" >>

\* len(v) is defined for strings and lists
HasLen(v) == v.t \in {"str", "list"}
PyLen(v) == IF v.t = "str" THEN StrLen(v.s) ELSE Len(v.l)
\* v[0] when len(v) = 1
Item0(v) == IF v.t = "str" THEN v ELSE v.l[1]

FieldClauseAlwaysIn(field, v) == Clause(field, "$in", v)

\* {field: v[0]} if len(v) == 1, else {field: {"$in": v}}
FieldClause(field, v) ==
    IF PyLen(v) = 1 THEN Clause(field, "$eq", Item0(v))
    ELSE Clause(field, "$in", v)

\* _build_filters(query_analysis): the where clause, or the TypeError of
\* an `in`, a subscript or a len() applied to a value of the wrong type
build_filters(query_analysis) ==
    LET required_filters ==
            IF query_analysis.required_filters.t = "absent" THEN EmptyFilters
            ELSE query_analysis.required_filters
        falsy == \/ required_filters.t = "null"
                 \/ required_filters.t = "dict" /\ DOMAIN required_filters.fields = {}
        present == SelectSeq(FilterFields,
                      LAMBDA f : /\ f \in DOMAIN required_filters.fields
                                 /\ Truthy(required_filters.fields[f]))
        where_clauses == [ i \in 1..Len(present) |->
                             FieldClause(present[i],
                                         required_filters.fields[present[i]]) ]
    IN  IF falsy THEN [ exception |-> "", where |-> NoWhere ]
        ELSE IF required_filters.t # "dict"
        THEN [ exception |-> "TypeError", where |-> NoWhere ]
        ELSE IF \E i \in 1..Len(present) :
                   ~HasLen(required_filters.fields[present[i]])
        THEN [ exception |-> "TypeError", where |-> NoWhere ]
        ELSE [ exception |-> "",
               where |-> CASE Len(where_clauses) = 0 -> NoWhere
                           [] Len(where_clauses) = 1 ->
                                [ t |-> "clause", clauses |-> where_clauses ]
                           [] OTHER ->
                                [ t |-> "$and", clauses |-> where_clauses ] ]

IsScalar(v) == v.t \in {"str", "num", "bool"}

\* the collection accepts an equality on a scalar and a membership in a
\* non-empty list of scalars
ValidClause(c) ==
    IF c.op = "$eq" THEN IsScalar(c.value)
    ELSE /\ c.value.t = "list"
         /\ c.value.l # << >>
         /\ \A i \in 1..Len(c.value.l) : IsScalar(c.value.l[i])

ClauseMatches(metadata, c) ==
    /\ c.field \in DOMAIN metadata
    /\ IF c.op = "$eq" THEN metadata[c.field] = c.value
       ELSE \E i \in 1..Len(c.value.l) : metadata[c.field] = c.value.l[i]

Matches(metadata, where) ==
    \A i \in 1..Len(where.clauses) : ClauseMatches(metadata, where.clauses[i])

NonDecreasing(ds) == \A i \in 1..(Len(ds) - 1) : ds[i] <= ds[i + 1]

\* collection.query(n_results, where): the n_results nearest entries that
\* match, nearest first; the distances depend on the embeddings
QueryResults(n_results, where) ==
    LET matching == { id \in DOMAIN collection.entries :
                         Matches(collection.entries[id].metadata, where) }
        n == IF n_results < Cardinality(matching) THEN n_results
             ELSE Cardinality(matching)
    IN  { [ ids |-> ids, distances |-> distances ] :
             ids \in { s \in [1..n -> matching] :
                          \A i, j \in 1..n : s[i] = s[j] => i = j },
             distances \in { ds \in [1..n -> DistanceValues] : NonDecreasing(ds) } }

SeqMin(s) == CHOOSE x \in { s[i] : i \in 1..Len(s) } : \A i \in 1..Len(s) : x <= s[i]
SeqMax(s) == CHOOSE x \in { s[i] : i \in 1..Len(s) } : \A i \in 1..Len(s) : x >= s[i]

ScoreUnreversed(distance, min_dist, dist_range) ==
    LET score == IF dist_range > 0
                 THEN ((distance - min_dist) * ScoreUnit) \div dist_range
                 ELSE ScoreUnit
        capped == IF score < ScoreUnit THEN score ELSE ScoreUnit
    IN  IF capped > 0 THEN capped ELSE 0

\* score = max(0.0, min(1.0, 1.0 - (distance - min_dist) / dist_range)),
\* in hundredths rounded down
Score(distance, min_dist, dist_range) ==
    LET score == IF dist_range > 0
                 THEN ScoreUnit - ((distance - min_dist) * ScoreUnit) \div dist_range
                 ELSE ScoreUnit
        capped == IF score < ScoreUnit THEN score ELSE ScoreUnit
    IN  IF capped > 0 THEN capped ELSE 0

\* _format_results(results)
format_results(results) ==
    IF results.ids = << >> THEN << >>
    ELSE LET distances == results.distances
             min_dist == IF distances # << >> THEN SeqMin(distances) ELSE 0
             dist_range == IF distances # << >> /\ SeqMax(distances) > min_dist
                           THEN SeqMax(distances) - min_dist
                           ELSE ScoreUnit
         IN  [ i \in 1..Len(results.ids) |->
                 [ id |-> results.ids[i],
                   text |-> collection.entries[results.ids[i]].document,
                   metadata |-> collection.entries[results.ids[i]].metadata,
                   distance |-> distances[i],
                   score |-> Score(distances[i], min_dist, dist_range) ] ]

\* no call of retrieve in progress
RetrieveIdle ==
    [ pc |-> "idle", op |-> "none", query |-> << >>,
      top_k |-> [ none |-> TRUE, k |-> 0 ], n_results |-> 0,
      use_query_understanding |-> FALSE, failure |-> "",
      query_analysis |-> Analysis("none", Absent, Absent,
                                  RequiredFilters("absent", << >>)),
      reformulated_query |-> Absent, intent |-> Absent, filters |-> NoWhere,
      results |-> [ ids |-> << >>, distances |-> << >> ], chunks |-> << >>,
      exception |-> "", raised_in |-> "", calls |-> 0 ]

\* retrieve(query, top_k, use_query_understanding) is called:
\* top_k = top_k or settings.top_k_retrieval, and the branch without query
\* understanding
RetrieveCall ==
    /\ fcall.pc \in {"idle", "returned", "raised"}
    /\ fcall.calls < MaxRetrieveCalls
    /\ \E query \in Queries, top_k \in TopKArgs, use_query_understanding \in BOOLEAN :
          fcall' =
            [RetrieveIdle EXCEPT
                !.pc = IF use_query_understanding THEN "prompt" ELSE "search",
                !.op = "retrieve",
                !.query = query,
                !.top_k = top_k,
                !.n_results = IF top_k.none THEN top_k_retrieval
                              ELSE OrDefault(top_k.k, top_k_retrieval),
                !.use_query_understanding = use_query_understanding,
                !.reformulated_query =
                    IF use_query_understanding THEN Absent ELSE Str(query),
                !.intent =
                    IF use_query_understanding THEN Absent ELSE Str(<<"factual">>),
                !.calls = fcall.calls + 1]
    /\ UNCHANGED << coreVars, storeVars >>

\* _understand_query: prompt_loader.get_prompt_text("query_understanding")
\* returns the prompt or raises (no file, no prompt section, a placeholder
\* without value); the call stands before the try block
UnderstandPrompt ==
    /\ fcall.pc = "prompt"
    /\ \E ok \in BOOLEAN :
          fcall' = IF ok THEN [fcall EXCEPT !.pc = "complete"]
                   ELSE [fcall EXCEPT !.pc = "raised",
                                      !.failure = "prompt",
                                      !.exception = "FileNotFoundError",
                                      !.raised_in = "_understand_query"]
    /\ UNCHANGED << coreVars, storeVars >>

\* _understand_query: the try block around complete_json with its two
\* except branches, then the two get calls of retrieve
UnderstandComplete ==
    /\ fcall.pc = "complete"
    /\ \E outcome \in {"returned", "JSONDecodeError", "APIError"},
          response \in AnalysisResponses :
          LET failure == IF outcome # "returned" THEN outcome
                         ELSE IF response.t # "dict" THEN "AttributeError"
                         ELSE ""
              query_analysis == IF failure # "" THEN DefaultAnalysis(fcall.query)
                                ELSE response
          IN  fcall' =
                [fcall EXCEPT
                    !.pc = "filters",
                    !.failure = failure,
                    !.query_analysis = query_analysis,
                    !.reformulated_query =
                        Get(query_analysis.reformulated_query, Str(fcall.query)),
                    !.intent = Get(query_analysis.intent, Str(<<"factual">>))]
    /\ UNCHANGED << coreVars, storeVars >>

\* filters = self._build_filters(query_analysis)
BuildFilters ==
    /\ fcall.pc = "filters"
    /\ LET built == build_filters(fcall.query_analysis)
       IN  fcall' = IF built.exception # ""
                    THEN [fcall EXCEPT !.pc = "raised",
                                       !.exception = built.exception,
                                       !.raised_in = "_build_filters"]
                    ELSE [fcall EXCEPT !.pc = "search",
                                       !.filters = built.where]
    /\ UNCHANGED << coreVars, storeVars >>

\* self.chroma.search(query, n_results, where): len(query) in the log call,
\* embed_single, collection.query; every failure reaches the caller
Search ==
    /\ fcall.pc = "search"
    /\ \/ /\ fcall.reformulated_query.t # "str"
          /\ fcall' = [fcall EXCEPT !.pc = "raised", !.exception = "TypeError",
                                    !.raised_in = "search"]
       \/ /\ fcall.reformulated_query.t = "str"
          /\ \E error \in {"Connection error.", "database is locked"} :
                fcall' = [fcall EXCEPT !.pc = "raised", !.exception = error,
                                       !.raised_in = "search"]
       \/ /\ fcall.reformulated_query.t = "str"
          /\ \E i \in 1..Len(fcall.filters.clauses) :
                ~ValidClause(fcall.filters.clauses[i])
          /\ fcall' = [fcall EXCEPT !.pc = "raised", !.exception = "ValueError",
                                    !.raised_in = "search"]
       \/ /\ fcall.reformulated_query.t = "str"
          /\ \A i \in 1..Len(fcall.filters.clauses) :
                ValidClause(fcall.filters.clauses[i])
          /\ \E results \in QueryResults(fcall.n_results, fcall.filters) :
                fcall' = [fcall EXCEPT !.pc = "format", !.results = results]
    /\ UNCHANGED << coreVars, storeVars >>

\* chunks = self._format_results(results), and the QueryResult returned
FormatResults ==
    /\ fcall.pc = "format"
    /\ fcall' = [fcall EXCEPT !.pc = "returned",
                              !.chunks = format_results(fcall.results)]
    /\ UNCHANGED << coreVars, storeVars >>

\* the entries add_chunks has stored for the documents
StoredEntries(documents) ==
    LET stored == { << d, i >> \in documents \X (1..2) :
                       i <= Len(DocumentChunks(d)) }
        of(id) == CHOOSE p \in stored :
                     chunk_id(p[1], DocumentChunks(p[1])[p[2]]) = id
    IN  [ id \in { chunk_id(p[1], DocumentChunks(p[1])[p[2]]) : p \in stored } |->
            Entry(DocumentChunks(of(id)[1])[of(id)[2]], of(id)[1]) ]

InitRetrieve ==
    /\ PipelineIdle
    /\ UsageInit
    /\ GatewayIdle
    /\ ThreadsIdle
    /\ chunker = ChunkerIdle
    /\ heap = HeapIdle
    /\ AuxIdle
    /\ fcall = RetrieveIdle
    /\ scall = ScallIdle
    /\ \E documents \in { {}, {"doc_1", "doc_2"} } :
          collection = [ entries |-> StoredEntries(documents),
                         on_existing_id |-> "ignore", added |-> documents ]

NextRetrieve ==
    \/ RetrieveCall
    \/ UnderstandPrompt
    \/ UnderstandComplete
    \/ BuildFilters
    \/ Search
    \/ FormatResults

SpecRetrieve == InitRetrieve /\ [][NextRetrieve]_vars

\* the argument of a returned call, and what it returned
Returned17 == fcall.op = "retrieve" /\ fcall.pc = "returned"

ScoresInRange ==
    \A i \in 1..Len(fcall.chunks) :
        fcall.chunks[i].score >= 0 /\ fcall.chunks[i].score <= ScoreUnit

ScoresNonIncreasing ==
    \A i \in 1..(Len(fcall.chunks) - 1) :
        fcall.chunks[i].score >= fcall.chunks[i + 1].score

\* C17 as stated: retrieve(query, top_k=k) returns at most k chunks, every
\* score lies in [0, 1] and the scores never increase along the list
C17_TopKAsStated ==
    (Returned17 /\ ~fcall.top_k.none) =>
        /\ Len(fcall.chunks) <= fcall.top_k.k
        /\ ScoresInRange
        /\ ScoresNonIncreasing

\* C17: retrieve(query, top_k=k) with k >= 1 returns at most k chunks, and
\* with top_k 0 or None at most settings.top_k_retrieval chunks; in every
\* case each score lies in [0, 1] and the scores never increase along the
\* list
C17_TopK ==
    Returned17 =>
        /\ Len(fcall.chunks) <=
              (IF ~fcall.top_k.none /\ fcall.top_k.k >= 1 THEN fcall.top_k.k
               ELSE top_k_retrieval)
        /\ ScoresInRange
        /\ ScoresNonIncreasing

\* a call with top_k = 2 returned two chunks whose scores differ
C17_Witness ==
    /\ Returned17
    /\ ~fcall.top_k.none /\ fcall.top_k.k = 2
    /\ Len(fcall.chunks) = 2
    /\ fcall.chunks[1].score > fcall.chunks[2].score

\* the search of the call is reached with the default analysis
DefaultSearch ==
    /\ fcall.pc = "raised" => fcall.raised_in = "search"
    /\ fcall.intent = Str(<<"factual">>)
    /\ fcall.reformulated_query = Str(fcall.query)
    /\ fcall.pc \in {"search", "format", "returned", "raised"} =>
          fcall.filters = NoWhere

\* C18: with query understanding enabled, a failure while analysing the
\* query (the model call fails, the response cannot be parsed, any other
\* error of the analysis step) is never raised to the caller of retrieve:
\* the call goes on to the search with intent "factual", the original query
\* and no filter
C18_AnalysisFallback ==
    (fcall.op = "retrieve" /\ fcall.use_query_understanding /\ fcall.failure # "") =>
        DefaultSearch

\* the part of C18 that the try block covers: the failures of complete_json
\* and of the use of its result
C18_CompleteFallback ==
    (/\ fcall.op = "retrieve"
     /\ fcall.use_query_understanding
     /\ fcall.failure \in {"JSONDecodeError", "APIError", "AttributeError"}) =>
        DefaultSearch

\* the call has built its filter
FiltersBuilt ==
    /\ fcall.op = "retrieve"
    /\ \/ fcall.pc \in {"search", "format", "returned"}
       \/ fcall.pc = "raised" /\ fcall.raised_in = "search"

\* the values the analysis requires of a field
RequiredValues(field) ==
    LET required_filters == fcall.query_analysis.required_filters
    IN  IF field \in DOMAIN required_filters.fields
           /\ required_filters.fields[field].t = "list"
        THEN required_filters.fields[field].l
        ELSE << >>

\* required_filters gives document_type and department, where it gives
\* them, as lists of values
ListValued ==
    LET required_filters == fcall.query_analysis.required_filters
    IN  /\ required_filters.t \in {"dict", "absent"}
        /\ \A field \in {"document_type", "department"} :
              field \in DOMAIN required_filters.fields =>
                  required_filters.fields[field].t = "list"

ClaimedClause(field) ==
    IF Len(RequiredValues(field)) = 1
    THEN Clause(field, "$eq", RequiredValues(field)[1])
    ELSE Clause(field, "$in", List(RequiredValues(field)))

\* C19: the store filter is built from required_filters.document_type and
\* required_filters.department alone: one value gives an equality clause,
\* several values a membership clause, both fields the two clauses under
\* "$and", neither field no filter; topics and audience give no clause
C19_BuildFilters ==
    (FiltersBuilt /\ ListValued) =>
        LET given == { field \in {"document_type", "department"} :
                          RequiredValues(field) # << >> }
            clauses == fcall.filters.clauses
        IN  /\ { clauses[i] : i \in 1..Len(clauses) } =
                  { ClaimedClause(field) : field \in given }
            /\ Len(clauses) = Cardinality(given)
            /\ fcall.filters.t = CASE Cardinality(given) = 0 -> "None"
                                   [] Cardinality(given) = 1 -> "clause"
                                   [] OTHER -> "$and"

\* an analysis that requires one document type, two departments, a topic
\* and an audience has given an "$and" of an equality and a membership
C19_Witness ==
    /\ FiltersBuilt
    /\ ListValued
    /\ "topics" \in DOMAIN fcall.query_analysis.required_filters.fields
    /\ "audience" \in DOMAIN fcall.query_analysis.required_filters.fields
    /\ Len(RequiredValues("document_type")) = 1
    /\ Len(RequiredValues("department")) = 2
    /\ fcall.filters.t = "$and"
    /\ fcall.filters.clauses[1].op = "$eq"
    /\ fcall.filters.clauses[2].op = "$in"

\* ------------------------------------------------------------------------
\* One classification request: classify_document_node -> classify ->
\* complete_json -> complete
\* ------------------------------------------------------------------------
MaxRequests == 1

\* json.loads(response)
json_loads(content) ==
    CASE content = ClassificationContent ->
           [ exception |-> "",
             value |-> [ complexity |-> Str(<<"simple">>),
                         document_type |-> Str(<<"HR Policy">>),
                         requires_deep_analysis |-> Bool(FALSE),
                         confidence |-> Num(95) ] ]
      [] content = "{\"a\": 1}" ->
           [ exception |-> "", value |-> [ a |-> Num(1) ] ]
      [] OTHER ->
           [ exception |-> "JSONDecodeError", value |-> << >> ]

\* what the statements after complete() end with: json.loads in
\* complete_json, then _parse_classification in classify
decode_exception(content) ==
    IF json_loads(content).exception # "" THEN json_loads(content).exception
    ELSE IF parse_classification_exception(json_loads(content).value) # ""
    THEN "ValueError"
    ELSE ""

RetriedEverywhere(site) == TRUE

\* @retry decorates complete alone: an exception raised by the statements
\* of complete_json or of classify that follow the call is not retried
Retried(site) == site = "complete"

\* no classification request in progress
RequestIdle ==
    [ pc |-> "idle", op |-> "none", state |-> << >>, failure |-> "",
      content |-> "", requests |-> 0, calls |-> 0 ]

\* classify_document_node(state) up to the first request of complete()
ClassifyNodeCall ==
    /\ fcall.pc \in {"idle", "done"}
    /\ fcall.calls < MaxRequests
    /\ \E raw_text \in RawTexts :
          fcall' = [RequestIdle EXCEPT
                       !.pc = "awaiting",
                       !.op = "classify_document_node",
                       !.state = classify_enter(
                                    create_initial_state("doc_1", raw_text, "")),
                       !.calls = fcall.calls + 1]
    /\ call' = [CallIdle EXCEPT
                   !.op = "complete", !.pc = "attempting",
                   !.model = settings_openai_model_doc_extraction,
                   !.attempt_number = 1, !.calls = call.calls + 1]
    /\ UNCHANGED << pipeVars, usageVars, retry_max_attempts, threadVars,
                    chunkVars, storeVars, auxVars >>

\* complete() has returned or raised: json.loads, _parse_classification,
\* and the two branches of the node
ClassifyNodeReturn ==
    /\ fcall.op = "classify_document_node"
    /\ fcall.pc = "awaiting"
    /\ call.pc \in {"returned", "raised"}
    /\ LET failure == IF call.pc = "raised" THEN "APIError"
                      ELSE decode_exception(call.value)
           site == IF call.pc = "raised" THEN "complete"
                   ELSE IF json_loads(call.value).exception # "" THEN "complete_json"
                   ELSE "classify"
           done(s) == [fcall EXCEPT !.pc = "done", !.state = s,
                                    !.failure = failure,
                                    !.content = call.value,
                                    !.requests = Len(call.log)]
       IN  IF failure = ""
           THEN /\ fcall' =
                     done(LET classification ==
                                  parse_classification(json_loads(call.value).value)
                          IN  Put(Put(Put(fcall.state, "classification", classification),
                                      "extraction_strategy",
                                      get_extraction_strategy(classification)),
                                  "status", "extracting_metadata"))
                /\ UNCHANGED call
           ELSE IF call.pc = "returned" /\ Retried(site)
                   /\ ~stop_after_attempt(call.attempt_number, retry_max_attempts)
           THEN /\ call' = [call EXCEPT !.pc = "waiting"]
                /\ UNCHANGED fcall
           ELSE /\ fcall' =
                     done(mark_as_failed(
                              fcall.state,
                              classify_error(IF call.pc = "raised"
                                             THEN call.exception ELSE failure),
                              "classification"))
                /\ UNCHANGED call
    /\ UNCHANGED << pipeVars, usageVars, retry_max_attempts, threadVars,
                    chunkVars, storeVars, auxVars >>

InitRequest ==
    /\ PipelineIdle
    /\ UsageInit
    /\ retry_max_attempts \in 1..MaxRetrySetting
    /\ call = CallIdle
    /\ ThreadsIdle
    /\ chunker = ChunkerIdle
    /\ heap = HeapIdle
    /\ AuxIdle
    /\ fcall = RequestIdle
    /\ StoreIdle

NextRequest ==
    \/ ClassifyNodeCall
    \/ CompleteAttempt
    \/ CompleteRetry
    \/ ClassifyNodeReturn

SpecRequest == InitRequest /\ [][NextRequest]_vars

\* the responses the model has given to the requests of the call
Responses == { i \in 1..Len(call.log) : call.log[i].ok }

TypeAgrees(s) ==
    "doc_metadata" \in DOMAIN s =>
        /\ "classification" \in DOMAIN s
        /\ "document_type" \in DOMAIN s["doc_metadata"]
        /\ s["doc_metadata"]["document_type"] = s["classification"]["document_type"]

\* C21: in every pipeline state that holds doc_metadata, after the
\* extraction and after the validator's fix, doc_metadata.document_type
\* equals classification.document_type, whatever the extraction response
\* gave as document_type
C21_DocumentTypeForced ==
    /\ TypeAgrees(state)
    /\ result # << >> => TypeAgrees(result)

\* a run classified as Guideline, a type no extraction response gives, has
\* completed with doc_metadata of that type
C21_Witness ==
    /\ pc = "returned"
    /\ result # << >>
    /\ result["status"] = "completed"
    /\ result["doc_metadata"]["document_type"] = Str(<<"Guideline">>)

\* the entries of a fixed array field are trimmed, non-empty strings
EntriesTrimmed(v) ==
    /\ v.t = "list"
    /\ \A i \in 1..Len(v.l) :
          v.l[i].t = "str" =>
              /\ v.l[i].s # << >>
              /\ strip(v.l[i].s) = v.l[i].s

NoDuplicates(v) ==
    v.t = "list" => \A i, j \in 1..Len(v.l) : v.l[i] = v.l[j] => i = j

\* C22: after the validator's minor-issue fix each array field (topics,
\* intended_audience, key_entities) is a list without duplicate entries and
\* without empty or whitespace-only strings, and every string entry is
\* trimmed
C22_ArrayFields ==
    (fcall.op = "fix" /\ fcall.pc = "returned") =>
        \A field \in array_fields \cap DOMAIN fcall.result :
            /\ EntriesTrimmed(fcall.result[field])
            /\ NoDuplicates(fcall.result[field])

\* the distances of the chunks a call returned
ChunkDistances == { fcall.chunks[i].distance : i \in 1..Len(fcall.chunks) }

\* C23: for a non-empty result set the normalization gives every entry a
\* score in [0, 1], 1.0 to the entries with the smallest distance, 0.0 to
\* the entries with the largest distance when the distances are not all
\* equal, and 1.0 to every entry when they are all equal
C23_ScoreNormalization ==
    (Returned17 /\ fcall.chunks # << >>) =>
        /\ ScoresInRange
        /\ \A i \in 1..Len(fcall.chunks) :
              LET d == fcall.chunks[i].distance
                  smallest == \A e \in ChunkDistances : d <= e
                  largest == \A e \in ChunkDistances : d >= e
              IN  /\ smallest => fcall.chunks[i].score = ScoreUnit
                  /\ (largest /\ ~smallest) => fcall.chunks[i].score = 0

\* three chunks at three different distances were returned
C23_Witness ==
    /\ Returned17
    /\ Len(fcall.chunks) = 3
    /\ Cardinality(ChunkDistances) = 3
    /\ fcall.chunks[1].score = ScoreUnit
    /\ fcall.chunks[2].score > 0 /\ fcall.chunks[2].score < ScoreUnit
    /\ fcall.chunks[3].score = 0

\* ------------------------------------------------------------------------
\* src/src/metadata/prompt_loader.py: load, reload, clear_cache
\* ------------------------------------------------------------------------
MaxLoaderCalls == 3

PromptNames == { "classification", "query_understanding" }

\* a piece of a prompt's text: plain text, or a {placeholder}
Piece(text, placeholder) == [ text |-> text, placeholder |-> placeholder ]

\* what a markdown file of the directory can hold: its version line and
\* the pieces of its "## Prompt:" section; section is FALSE without one
PromptFile(version, section, prompt) ==
    [ version |-> version, section |-> section, prompt |-> prompt ]

FileContents ==
    { PromptFile("1.0.0", TRUE, << Piece("Classify: ", FALSE),
                                   Piece("document_preview", TRUE) >>),
      PromptFile("1.1.0", TRUE, << Piece("Answer in JSON. ", FALSE),
                                   Piece("query", TRUE),
                                   Piece(" again: ", FALSE),
                                   Piece("query", TRUE) >>),
      PromptFile("1.0.0", FALSE, << >>) }

\* _extract_placeholders(prompt)
extract_placeholders(prompt) ==
    { prompt[i].text : i \in { j \in 1..Len(prompt) : prompt[j].placeholder } }

\* the entry load builds from the content of a file
ParsedPrompt(content) ==
    [ prompt |-> content.prompt,
      metadata |-> [ version |-> content.version ],
      placeholders |-> extract_placeholders(content.prompt) ]

LoadResult(c, returned, exception, read) ==
    [ cache |-> c, returned |-> returned, exception |-> exception, read |-> read ]

\* load(prompt_name) on the cache c and the directory files
load(c, files, prompt_name) ==
    IF prompt_name \in DOMAIN c
    THEN LoadResult(c, c[prompt_name], "", FALSE)
    ELSE IF prompt_name \notin DOMAIN files
    THEN LoadResult(c, << >>, "FileNotFoundError", FALSE)
    ELSE IF ~files[prompt_name].section
    THEN LoadResult(c, << >>, "ValueError", TRUE)
    ELSE LoadResult(Put(c, prompt_name, ParsedPrompt(files[prompt_name])),
                    ParsedPrompt(files[prompt_name]), "", TRUE)

\* a reload that empties the cache before it loads
reload_clearing(c, files, prompt_name) == load(<< >>, files, prompt_name)

\* reload(prompt_name)
reload(c, files, prompt_name) ==
    load(Without(c, {prompt_name}), files, prompt_name)

\* a file of the prompts directory is written, changed or removed
EditFile ==
    /\ \E name \in PromptNames :
          \/ \E content \in FileContents :
                prompt_files' = Put(prompt_files, name, content)
          \/ prompt_files' = Without(prompt_files, {name})
    /\ prompt_files' # prompt_files
    /\ UNCHANGED << pipeVars, usageVars, gatewayVars, threadVars, chunkVars,
                    fcall, storeVars, cache, lcall, accessorVars >>

LoaderCall(op, name, r) ==
    /\ lcall' = [ pc |-> IF r.exception = "" THEN "returned" ELSE "raised",
                  op |-> op, name |-> name, returned |-> r.returned,
                  exception |-> r.exception, read |-> r.read,
                  before |-> [ cache |-> cache, files |-> prompt_files ],
                  calls |-> lcall.calls + 1 ]
    /\ cache' = r.cache
    /\ UNCHANGED << pipeVars, usageVars, gatewayVars, threadVars, chunkVars,
                    fcall, storeVars, prompt_files, accessorVars >>

Load ==
    /\ lcall.calls < MaxLoaderCalls
    /\ \E name \in PromptNames :
          LoaderCall("load", name, load(cache, prompt_files, name))

Reload ==
    /\ lcall.calls < MaxLoaderCalls
    /\ \E name \in PromptNames :
          LoaderCall("reload", name, reload(cache, prompt_files, name))

ClearCache ==
    /\ lcall.calls < MaxLoaderCalls
    /\ LoaderCall("clear_cache", "", LoadResult(<< >>, << >>, "", FALSE))

\* PromptLoader.__init__: an empty cache over a directory that exists
InitLoader ==
    /\ PipelineIdle
    /\ UsageInit
    /\ GatewayIdle
    /\ ThreadsIdle
    /\ chunker = ChunkerIdle
    /\ heap = HeapIdle
    /\ LibIdle
    /\ prompt_files \in [PromptNames -> FileContents]
    /\ cache = << >>
    /\ lcall = LcallIdle
    /\ singleton = [a \in Accessors |-> 0]
    /\ constructed = [a \in Accessors |-> 0]
    /\ getters = [t \in Threads |-> GetterIdle]

NextLoader ==
    \/ EditFile
    \/ Load
    \/ Reload
    \/ ClearCache

SpecLoader == InitLoader /\ [][NextLoader]_vars

\* the cached entries of the names other than the one of the call are as
\* they were before it
OthersKept ==
    \A name \in PromptNames \ { lcall.name } :
        /\ name \in DOMAIN cache <=> name \in DOMAIN lcall.before.cache
        /\ name \in DOMAIN cache => cache[name] = lcall.before.cache[name]

MaxGetterCalls == 2

InProgress(t, a) ==
    getters[t].pc \in {"construct", "return"} /\ getters[t].accessor = a

\* a thread calls an accessor and evaluates `if _client is None`
GetCheck(t) ==
    /\ getters[t].pc \in {"idle", "returned"}
    /\ getters[t].calls < MaxGetterCalls
    /\ \E a \in Accessors :
          LET others == { u \in Threads \ {t} : InProgress(u, a) }
          IN  getters' =
                [u \in Threads |->
                   IF u = t
                   THEN [ pc |-> IF singleton[a] = 0 THEN "construct" ELSE "return",
                          accessor |-> a,
                          got |-> 0, calls |-> getters[t].calls + 1,
                          overlapped |-> getters[t].overlapped \/ others # {} ]
                   ELSE IF u \in others
                   THEN [getters[u] EXCEPT !.overlapped = TRUE]
                   ELSE getters[u]]
    /\ UNCHANGED << singleton, constructed >>
    /\ UNCHANGED << pipeVars, usageVars, gatewayVars, threadVars, chunkVars,
                    fcall, storeVars, loaderVars >>

\* _client = LLMClient()
GetConstruct(t) ==
    /\ getters[t].pc = "construct"
    /\ LET a == getters[t].accessor
       IN  /\ constructed' = [constructed EXCEPT ![a] = @ + 1]
           /\ singleton' = [singleton EXCEPT ![a] = constructed[a] + 1]
    /\ getters' = [getters EXCEPT ![t].pc = "return"]
    /\ UNCHANGED << pipeVars, usageVars, gatewayVars, threadVars, chunkVars,
                    fcall, storeVars, loaderVars >>

\* return _client
GetReturn(t) ==
    /\ getters[t].pc = "return"
    /\ getters' = [getters EXCEPT ![t].pc = "returned",
                                  ![t].got = singleton[getters[t].accessor]]
    /\ UNCHANGED << singleton, constructed >>
    /\ UNCHANGED << pipeVars, usageVars, gatewayVars, threadVars, chunkVars,
                    fcall, storeVars, loaderVars >>

InitAccessor ==
    /\ PipelineIdle
    /\ UsageInit
    /\ GatewayIdle
    /\ ThreadsIdle
    /\ chunker = ChunkerIdle
    /\ heap = HeapIdle
    /\ LibIdle
    /\ prompt_files = << >>
    /\ cache = << >>
    /\ lcall = LcallIdle
    /\ singleton = [a \in Accessors |-> 0]
    /\ constructed = [a \in Accessors |-> 0]
    /\ getters = [t \in Threads |-> GetterIdle]

NextAccessor ==
    \E t \in Threads :
        \/ GetCheck(t)
        \/ GetConstruct(t)
        \/ GetReturn(t)

SpecAccessor == InitAccessor /\ [][NextAccessor]_vars

\* the instances the calls of an accessor that have returned were given
Given(a) ==
    { getters[t].got :
         t \in { u \in Threads : getters[u].pc = "returned"
                                    /\ getters[u].accessor = a } }

\* C25: each global accessor constructs its instance at most once per
\* process and every call, first calls of concurrent threads included,
\* returns that one instance
C25_SingleInstance ==
    \A a \in Accessors :
        /\ constructed[a] <= 1
        /\ Cardinality(Given(a)) <= 1

\* the same for calls that do not overlap in time
C25_Sequential ==
    (\A t \in Threads : ~getters[t].overlapped) =>
        \A a \in Accessors :
            /\ constructed[a] <= 1
            /\ Cardinality(Given(a)) <= 1

\* t holds every field of s, and the same document_id, raw_text and, where
\* s has one, classification
Extends(s, t) ==
    /\ DOMAIN s \subseteq DOMAIN t
    /\ \A field \in {"document_id", "raw_text", "classification"} \cap DOMAIN s :
          t[field] = s[field]

\* C26: every stage writes a superset of the state it received: no stage
\* removes a field, and document_id, raw_text and, once set, classification
\* keep their value through every later stage and into the state run()
\* returns from the graph
C26_StateGrows ==
    [][/\ (pc # "returned" /\ state' # state) => Extends(state, state')
       /\ (pc = "END" /\ pc' = "returned" /\ ~pipeline_exc') =>
             Extends(state, result')]_vars

\* a run has returned a completed state that holds the products of every
\* stage beside the two input fields
C26_Witness ==
    /\ pc = "returned"
    /\ ~pipeline_exc
    /\ result # << >>
    /\ result["status"] = "completed"
    /\ {"document_id", "raw_text", "classification", "doc_metadata", "chunks",
        "enriched_chunks", "is_valid"} \subseteq DOMAIN result
    /\ result["classification"] = state["classification"]
    /\ result["raw_text"] = initial_state["raw_text"]

\* the chunking loop under a scheduler that runs an iteration, or the
\* return, whenever one is possible
SpecChunkFair ==
    SpecChunk /\ WF_vars(ChunkIterate) /\ WF_vars(ChunkReturn)

\* C27: for every text and every call chunk_document(text, chunk_size = s,
\* chunk_overlap = o) with s > 0 and 0 <= o < s the chunking loop terminates
\* and returns its list; o = 0 and sizes below the configured default
\* overlap are among the calls
C27_Terminates ==
    (chunker.pc = "loop") ~> (chunker.pc = "done")

\* the calls whose effective overlap is below their effective size do
\* terminate
C27_TerminatesWhenAdvancing ==
    (chunker.pc = "loop" /\ chunker.overlap < chunker.size) ~> (chunker.pc = "done")

\* every iteration moves start_idx forward
C27_Advances ==
    [][(chunker.pc = "loop" /\ chunker'.pc = "loop" /\ chunker' # chunker) =>
          chunker'.loop.start_idx > chunker.loop.start_idx]_vars

\* the step of a run that follows a state marked failed leaves the state as
\* the failing stage wrote it and runs no processing stage
FailedStateKept ==
    /\ pc \in {"handle_error", "END"}
    /\ pc' \in {"END", "returned"}
    /\ state' = state
    /\ (pc' = "returned" /\ ~pipeline_exc') =>
          /\ \A field \in DOMAIN state : result'[field] = state[field]
          /\ DOMAIN result' \ DOMAIN state \subseteq
                {"processing_time", "tokens_used", "estimated_cost"}

\* C28: once a stage has set status to failed no later processing stage
\* runs: only the error handler runs before the end, status, error and
\* error_stage stay as the failing stage set them, and no field of a later
\* stage is added to the state that run() returns
C28_FailedIsFinal ==
    [][(state["status"] = "failed" /\ pc # "returned" /\ ~pipeline_exc')
          => FailedStateKept]_vars

\* the same for a failure of a stage other than the chunk metadata stage
C28_FailedIsFinalBeforeChunks ==
    [][(/\ state["status"] = "failed"
        /\ state["error_stage"] # "chunk_metadata_extraction"
        /\ pc # "returned"
        /\ ~pipeline_exc')
          => FailedStateKept]_vars


\* the usage that run() writes into the state it returns
ReportedUsage(r) ==
    /\ r["tokens_used"] = total_tokens_used
    /\ r["estimated_cost"] = RoundedCost(total_cost)

\* C29: tokens_used and estimated_cost of a returned state are the shared
\* client's cumulative totals (the cost as get_usage_stats formats it) at the
\* moment the run ends, and the totals never decrease from one step to the
\* next, a call of run() for the next document included: what a later run
\* reports is no smaller than what an earlier run reported and includes the
\* earlier run's usage
C29_CumulativeUsage ==
    [][/\ (pc = "END" /\ pc' = "returned" /\ ~pipeline_exc') =>
             /\ result'["tokens_used"] = total_tokens_used'
             /\ result'["estimated_cost"] = RoundedCost(total_cost')
       /\ (pc = "returned" /\ ~pipeline_exc) => ReportedUsage(result)
       /\ total_tokens_used' >= total_tokens_used
       /\ total_cost' >= total_cost
       /\ RoundedCost(total_cost') >= RoundedCost(total_cost)]_vars

\* a second run whose only LLM request failed, so that it used no token,
\* reports the tokens and the cost of the first run
C29_Witness ==
    /\ runs = 2
    /\ pc = "returned"
    /\ ~pipeline_exc
    /\ raised # << >>
    /\ raised[1].stage = "classification"
    /\ raised[1].msg \in Messages
    /\ result["tokens_used"] > 0
    /\ result["estimated_cost"] > 0


\* the embedding request of the add_chunks call in progress has failed
EmbeddingFailed(c) ==
    /\ c.op = "add_chunks"
    /\ c.exception = "Connection error."

\* C30: when embedding generation fails during add_chunks the failure is
\* raised to the caller, collection.add is never reached for that call (the
\* call takes no further step), and the collection holds exactly the entries
\* it held before the call
C30_EmbeddingFailureWritesNothing ==
    [][/\ (scall.op = "add_chunks" /\ scall.pc = "embed") =>
             /\ collection' = collection
             /\ EmbeddingFailed(scall') => scall'.pc = "raised"
       /\ EmbeddingFailed(scall) =>
             /\ scall.pc = "raised"
             /\ scall'.calls = scall.calls => UNCHANGED << collection, scall >>]_vars

\* a call whose embedding failed after an earlier call had stored entries
C30_Witness ==
    /\ EmbeddingFailed(scall)
    /\ scall.pc = "raised"
    /\ scall.chunks # << >>
    /\ DOMAIN collection.entries # {}
    /\ \A i \in 1..Len(scall.ids) : scall.ids[i] \notin DOMAIN collection.entries

====
